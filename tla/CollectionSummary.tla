------------------------- MODULE CollectionSummary -------------------------
(***************************************************************************)
(* The summaries of collections: the rows of table collection_summary, the *)
(* requests that ask for one or drop it (collection_service.py,            *)
(* collection_summary_service.py), the reconciler that claims rows in one  *)
(* session and dispatches Celery work (CollectionSummaryReconciler), and   *)
(* the task with its callbacks.                                            *)
(*                                                                         *)
(* A conditional UPDATE that is committed at once is one step.  The claim  *)
(* is not: its message is sent before it commits, and a claim whose        *)
(* message could not be sent stays open in the session of the round, to be *)
(* committed with the next claim or rolled back at the end.                *)
(***************************************************************************)
EXTENDS Integers

CONSTANTS
    Collections,
    Clients,        \* API requests that can be in progress at the same time
    Reconcilers,    \* runs of reconcile_collection_summaries_task that overlap
    Ids,            \* ids of collection_summary rows
    Messages,       \* Celery message identities
    FaultKinds,     \* the faults that happen, a subset of AllFaults
    MaxUpdates,     \* bound: number of updates of collections in a behaviour
    MaxFaults       \* bound: number of faults in a behaviour

AllFaults == {"request", "round", "broker", "lose", "redeliver", "error"}

ASSUME ConstantsAssumption ==
    /\ FaultKinds \subseteq AllFaults
    /\ MaxUpdates \in Nat
    /\ MaxFaults \in Nat
    /\ "NONE" \notin Ids \cup Collections

VARIABLES
    coll,     \* the collection rows
    row,      \* the collection_summary row of each collection
    svc,      \* the request each client has open
    rec,      \* the round each reconciler is in
    tasks,    \* collection_summary_task messages, queued or running
    updates,  \* number of updates so far
    faults    \* number of faults so far

vars == <<coll, row, svc, rec, tasks, updates, faults>>

Status == {"PENDING", "GENERATING", "COMPLETE", "FAILED"}

\* enabled is enable_summary of the config; text says whose the description is.
Collection == [status: {"NONE", "ACTIVE", "DELETED"}, enabled: BOOLEAN,
               text: {"user", "summary"}]

Row == [id: Ids, status: Status, version: Nat \ {0}, observed: Nat]
NoRow == [id |-> "NONE", status |-> "NONE", version |-> 0, observed |-> 0]

\* A request between its transactions: "trigger" has still to read the row;
\* "bump", "insert" and "remove" have read it and are about to write.
Request == [pc: {"trigger", "bump", "insert", "remove"}, coll: Collections,
            enabled: BOOLEAN, id: Ids \cup {"NONE"}, version: Nat]
NoRequest == [pc |-> "idle"]

\* What the round's session remembers of the rows it selected.
Seen == [id: Ids, version: Nat \ {0}]
NotSeen == [id |-> "NONE", version |-> 0]

\* cur is the summary being reconciled; held are the rows this session has
\* claimed and not committed; expired: a commit has expired what was loaded.
Round == [pc: {"idle", "picking", "claiming", "claimed", "sent"},
          seen: [Collections -> Seen \cup {NotSeen}],
          cur: Collections \cup {"NONE"}, held: SUBSET Collections,
          expired: BOOLEAN]
IdleRound == [pc |-> "idle", seen |-> [c \in Collections |-> NotSeen],
              cur |-> "NONE", held |-> {}, expired |-> FALSE]

\* A task.  Once its callback has read the collection: enabled is the config
\* it found, and unchanged says gmt_updated is still the one it read.
Task == [msg: Messages, id: Ids, coll: Collections, version: Nat \ {0},
         pc: {"queued", "generating", "read", "failing"},
         enabled: BOOLEAN, unchanged: BOOLEAN]

Marked(r, s) == [id |-> r.id, status |-> s, version |-> r.version,
                 observed |-> r.observed]

Exists(c) == row[c].status # "NONE"
Live(c) == coll[c].status = "ACTIVE"
Locked(c) == \E r \in Reconcilers : c \in rec[r].held

FreeIds ==
    Ids \ ({row[c].id : c \in Collections} \cup {t.id : t \in tasks}
           \cup UNION {{rec[r].seen[c].id : c \in Collections} : r \in Reconcilers}
           \cup {svc[q].id : q \in {p \in Clients : svc[p] # NoRequest}})
NewId == CHOOSE i \in FreeIds : TRUE
FreeMessages == Messages \ {t.msg : t \in tasks}
NewMessage == CHOOSE m \in FreeMessages : TRUE

Fault(kind) ==
    /\ kind \in FaultKinds
    /\ faults < MaxFaults
    /\ faults' = faults + 1

-----------------------------------------------------------------------------
(* The requests                                                            *)

Idle(q) == svc[q] = NoRequest
Asks(c, e) == [pc |-> "trigger", coll |-> c, enabled |-> e, id |-> "NONE",
               version |-> 0]

\* create_collection; it triggers only when the summary is enabled.
CreateCollection(q, c) ==
    /\ Idle(q) /\ coll[c].status = "NONE"
    /\ \E e \in BOOLEAN :
         /\ coll' = [coll EXCEPT ![c] = [status |-> "ACTIVE", enabled |-> e,
                                         text |-> "user"]]
         /\ svc' = [svc EXCEPT ![q] = IF e THEN Asks(c, TRUE) ELSE NoRequest]
    /\ UNCHANGED <<row, rec, tasks, updates, faults>>

\* update_collection writes title, description and config, not gmt_updated,
\* and triggers with the config it has written.
UpdateCollection(q, c) ==
    /\ Idle(q) /\ Live(c)
    /\ updates < MaxUpdates /\ updates' = updates + 1
    /\ \E e \in BOOLEAN :
         /\ coll' = [coll EXCEPT ![c] = [status |-> "ACTIVE", enabled |-> e,
                                         text |-> "user"]]
         /\ svc' = [svc EXCEPT ![q] = Asks(c, e)]
    /\ UNCHANGED <<row, rec, tasks, faults>>

\* delete_collection leaves the summary's row.
DeleteCollection(q, c) ==
    /\ Idle(q) /\ Live(c)
    /\ coll' = [coll EXCEPT ![c].status = "DELETED"]
    /\ UNCHANGED <<row, svc, rec, tasks, updates, faults>>

\* Mutant, for the model checker only: a summary being generated is kept.
DecisionKeepsBusy(e, r) ==
    IF e /\ r = NoRow THEN "insert"
    ELSE IF r.status = "GENERATING" \/ (~e /\ r = NoRow) THEN "nothing"
    ELSE IF e THEN "bump" ELSE "remove"

\* trigger_collection_summary_generation reads the row and decides; it asks
\* for nothing while a summary is being generated.
Decision(e, r) ==
    IF e /\ r = NoRow THEN "insert"
    ELSE IF e /\ r.status # "GENERATING" THEN "bump"
    ELSE IF ~e /\ r # NoRow THEN "remove"
    ELSE "nothing"

ReadTrigger(q) ==
    /\ ~Idle(q) /\ svc[q].pc = "trigger"
    /\ LET c == svc[q].coll
           what == Decision(svc[q].enabled, row[c])
       IN svc' = [svc EXCEPT ![q] =
                    IF what = "nothing" THEN NoRequest
                    ELSE [pc |-> what, coll |-> c, enabled |-> svc[q].enabled,
                          id |-> row[c].id, version |-> row[c].version]]
    /\ UNCHANGED <<coll, row, rec, tasks, updates, faults>>

\* Mutant, for the model checker only: requests wait for no claim.
WritableWhileHeld(q) == row[svc[q].coll].id = svc[q].id

\* The same row is there, and not claimed by an open round.
Writable(q) ==
    LET c == svc[q].coll IN row[c].id = svc[q].id /\ ~Locked(c)

\* record.update_version(): the version written is the one read, plus one.
Renewed(r, request) ==
    [id |-> r.id, status |-> r.status, version |-> request.version + 1,
     observed |-> r.observed]

Bump(q) ==
    /\ ~Idle(q) /\ svc[q].pc = "bump" /\ Writable(q)
    /\ row' = [row EXCEPT ![svc[q].coll] = Renewed(row[svc[q].coll], svc[q])]
    /\ svc' = [svc EXCEPT ![q] = NoRequest]
    /\ UNCHANGED <<coll, rec, tasks, updates, faults>>

Insert(q) ==
    /\ ~Idle(q) /\ svc[q].pc = "insert" /\ ~Exists(svc[q].coll)
    /\ FreeIds # {}
    /\ row' = [row EXCEPT ![svc[q].coll] =
                 [id |-> NewId, status |-> "PENDING", version |-> 1,
                  observed |-> 0]]
    /\ svc' = [svc EXCEPT ![q] = NoRequest]
    /\ UNCHANGED <<coll, rec, tasks, updates, faults>>

Remove(q) ==
    /\ ~Idle(q) /\ svc[q].pc = "remove" /\ Writable(q)
    /\ row' = [row EXCEPT ![svc[q].coll] = NoRow]
    /\ svc' = [svc EXCEPT ![q] = NoRequest]
    /\ UNCHANGED <<coll, rec, tasks, updates, faults>>

\* The row read is gone, or the one to insert is there: nothing is written.
\* A request can also end between its transactions (fault "request").
EndsInVain(q) ==
    /\ ~Idle(q)
    /\ \/ svc[q].pc \in {"bump", "remove"} /\ row[svc[q].coll].id # svc[q].id
       \/ svc[q].pc = "insert" /\ Exists(svc[q].coll)
    /\ svc' = [svc EXCEPT ![q] = NoRequest]
    /\ UNCHANGED <<coll, row, rec, tasks, updates, faults>>

RequestDies(q) ==
    /\ ~Idle(q) /\ Fault("request")
    /\ svc' = [svc EXCEPT ![q] = NoRequest]
    /\ UNCHANGED <<coll, row, rec, tasks, updates>>

-----------------------------------------------------------------------------
(* CollectionSummaryReconciler                                             *)

\* Mutant, for the model checker only: a failed summary needs a new version.
NeedsNewVersion(r) ==
    r # NoRow /\ r.version # r.observed /\ r.status # "GENERATING"

\* _get_summaries_needing_reconciliation
NeedsReconciliation(r) ==
    /\ r # NoRow
    /\ r.version # r.observed \/ r.status # "GENERATING"

Scan(r) ==
    /\ rec[r].pc = "idle"
    /\ \E c \in Collections : NeedsReconciliation(row[c])
    /\ rec' = [rec EXCEPT ![r] =
         [pc |-> "picking",
          seen |-> [c \in Collections |->
                      IF NeedsReconciliation(row[c])
                      THEN [id |-> row[c].id, version |-> row[c].version]
                      ELSE NotSeen],
          cur |-> "NONE", held |-> {}, expired |-> FALSE]]
    /\ UNCHANGED <<coll, row, svc, tasks, updates, faults>>

\* Reading summary.id and summary.version loads the row again when a commit
\* has expired it.
Reread(round, c) ==
    IF round.expired
    THEN [id |-> round.seen[c].id, version |-> row[c].version]
    ELSE round.seen[c]

Pick(r, c) ==
    /\ rec[r].pc = "picking" /\ rec[r].seen[c] # NotSeen
    /\ rec[r].expired => row[c].id = rec[r].seen[c].id
    /\ rec' = [rec EXCEPT ![r] =
         [pc |-> "claiming",
          seen |-> [rec[r].seen EXCEPT ![c] = Reread(rec[r], c)],
          cur |-> c, held |-> rec[r].held, expired |-> rec[r].expired]]
    /\ UNCHANGED <<coll, row, svc, tasks, updates, faults>>

\* The expired row has been deleted: ObjectDeletedError, raised again by the
\* handler that logs it, ends the round.  The session is closed: rollback.
PickRaises(r, c) ==
    /\ rec[r].pc = "picking" /\ rec[r].seen[c] # NotSeen
    /\ rec[r].expired /\ row[c].id # rec[r].seen[c].id
    /\ rec' = [rec EXCEPT ![r] = IdleRound]
    /\ UNCHANGED <<coll, row, svc, tasks, updates, faults>>

\* Mutant, for the model checker only: the claim does not look at the status.
ClaimableInAnyStatus(s, c) == row[c].id = s.id /\ row[c].version = s.version

\* _claim_summary_for_processing
Claimable(s, c) ==
    /\ row[c].id = s.id
    /\ row[c].status # "GENERATING"
    /\ row[c].version = s.version

Claim(r) ==
    /\ rec[r].pc = "claiming"
    /\ LET c == rec[r].cur IN
         /\ Claimable(rec[r].seen[c], c) /\ ~Locked(c)
         /\ rec' = [rec EXCEPT ![r] =
              [pc |-> "claimed", seen |-> rec[r].seen, cur |-> c,
               held |-> rec[r].held \cup {c}, expired |-> rec[r].expired]]
    /\ UNCHANGED <<coll, row, svc, tasks, updates, faults>>

\* Mutant, for the model checker only: the list keeps what was claimed.
SkippedAgain(round) == [round EXCEPT !.pc = "picking", !.cur = "NONE"]

\* The next summary of the list; what was claimed and not sent stays held.
Skipped(round) ==
    [pc |-> "picking", seen |-> [round.seen EXCEPT ![round.cur] = NotSeen],
     cur |-> "NONE", held |-> round.held, expired |-> round.expired]

ClaimFails(r) ==
    /\ rec[r].pc = "claiming"
    /\ ~Claimable(rec[r].seen[rec[r].cur], rec[r].cur)
    /\ rec' = [rec EXCEPT ![r] = Skipped(rec[r])]
    /\ UNCHANGED <<coll, row, svc, tasks, updates, faults>>

\* A message of collection_summary_task with its arguments.
Queued(id, c, version) ==
    [msg |-> NewMessage, id |-> id, coll |-> c, version |-> version,
     pc |-> "queued", enabled |-> FALSE, unchanged |-> FALSE]

\* _schedule_summary_generation: the message leaves before the commit.
Dispatch(r) ==
    /\ rec[r].pc = "claimed" /\ FreeMessages # {}
    /\ LET c == rec[r].cur IN
         tasks' = tasks \cup
           {Queued(rec[r].seen[c].id, c, rec[r].seen[c].version)}
    /\ rec' = [rec EXCEPT ![r].pc = "sent"]
    /\ UNCHANGED <<coll, row, svc, updates, faults>>

\* The broker refuses: the exception is caught by reconcile_all, which goes
\* on without a rollback.
DispatchFails(r) ==
    /\ rec[r].pc = "claimed" /\ Fault("broker")
    /\ rec' = [rec EXCEPT ![r] = Skipped(rec[r])]
    /\ UNCHANGED <<coll, row, svc, tasks, updates>>

CommitClaim(r) ==
    /\ rec[r].pc = "sent"
    /\ row' = [c \in Collections |->
                 IF c \in rec[r].held THEN Marked(row[c], "GENERATING")
                 ELSE row[c]]
    /\ rec' = [rec EXCEPT ![r] =
         [pc |-> "picking", seen |-> Skipped(rec[r]).seen, cur |-> "NONE",
          held |-> {}, expired |-> TRUE]]
    /\ UNCHANGED <<coll, svc, tasks, updates, faults>>

\* The list is done; closing the session rolls back what is still held.
EndRound(r) ==
    /\ rec[r].pc = "picking"
    /\ \A c \in Collections : rec[r].seen[c] = NotSeen
    /\ rec' = [rec EXCEPT ![r] = IdleRound]
    /\ UNCHANGED <<coll, row, svc, tasks, updates, faults>>

RoundDies(r) ==
    /\ rec[r].pc # "idle" /\ Fault("round")
    /\ rec' = [rec EXCEPT ![r] = IdleRound]
    /\ UNCHANGED <<coll, row, svc, tasks, updates>>

-----------------------------------------------------------------------------
(* collection_summary_task and its callbacks                               *)

Becomes(t, u) == tasks' = (tasks \ {t}) \cup {u}
Done(t) == tasks' = tasks \ {t}

\* Mutant, for the model checker only: callbacks do not look at the version.
ExpectedInAnyVersion(t) ==
    row[t.coll].id = t.id /\ row[t.coll].status = "GENERATING"

\* The condition of the task and of both callbacks.
Expected(t) ==
    /\ row[t.coll].id = t.id
    /\ row[t.coll].status = "GENERATING"
    /\ row[t.coll].version = t.version

\* generate_collection_summary_task.  It catches every exception, so Celery
\* retries nothing: a row that does not match ends in on_summary_failed.
StartTask(t) ==
    /\ t.pc = "queued"
    /\ IF Live(t.coll) /\ row[t.coll].id # t.id
       THEN Done(t)
       ELSE Becomes(t, [t EXCEPT !.pc = IF Live(t.coll) /\ Expected(t)
                                        THEN "generating" ELSE "failing"])
    /\ UNCHANGED <<coll, row, svc, rec, updates, faults>>

\* No completion service, a failing LLM call, unreadable data.
GenerationFails(t) ==
    /\ t.pc = "generating" /\ Fault("error")
    /\ Becomes(t, [t EXCEPT !.pc = "failing"])
    /\ UNCHANGED <<coll, row, svc, rec, updates>>

\* on_summary_generated reads the summary's row, then the collection.
ReadCollection(t) ==
    /\ t.pc = "generating"
    /\ IF Expected(t) /\ Live(t.coll)
       THEN Becomes(t, [t EXCEPT !.pc = "read",
                                 !.enabled = coll[t.coll].enabled,
                                 !.unchanged = TRUE])
       ELSE Done(t)
    /\ UNCHANGED <<coll, row, svc, rec, updates, faults>>

\* The UPDATE of the description: only a summary with content (documents had
\* summaries), enabled when read, over the gmt_updated that was read.
Describes(t) == t.enabled /\ t.unchanged /\ Live(t.coll)

\* Mutant, for the model checker only: the row is not checked a second time.
CompleteUnchecked(t) ==
    /\ t.pc = "read" /\ row[t.coll].id = t.id
    /\ row' = [row EXCEPT ![t.coll] =
                 [id |-> t.id, status |-> "COMPLETE",
                  version |-> row[t.coll].version, observed |-> t.version]]
    /\ \E content \in BOOLEAN :
         coll' = IF content /\ Describes(t)
                 THEN [coll EXCEPT ![t.coll].text = "summary"] ELSE coll
    /\ Done(t)
    /\ UNCHANGED <<svc, rec, updates, faults>>

\* ... updates the summary's row, then the description, and commits.
CompleteSummary(t) ==
    /\ t.pc = "read" /\ Expected(t)
    /\ row' = [row EXCEPT ![t.coll] =
                 [id |-> t.id, status |-> "COMPLETE",
                  version |-> row[t.coll].version, observed |-> t.version]]
    /\ \E content \in BOOLEAN :
         IF content /\ Describes(t)
         THEN /\ coll' = [coll EXCEPT ![t.coll].text = "summary"]
              /\ tasks' = {IF u.coll = t.coll
                           THEN [u EXCEPT !.unchanged = FALSE] ELSE u :
                             u \in tasks \ {t}}
         ELSE UNCHANGED coll /\ Done(t)
    /\ UNCHANGED <<svc, rec, updates, faults>>

CompletionIgnored(t) ==
    /\ t.pc = "read" /\ ~Expected(t)
    /\ Done(t)
    /\ UNCHANGED <<coll, row, svc, rec, updates, faults>>

\* on_summary_failed
FailSummary(t) ==
    /\ t.pc = "failing"
    /\ row' = IF Expected(t)
              THEN [row EXCEPT ![t.coll] = Marked(row[t.coll], "FAILED")]
              ELSE row
    /\ Done(t)
    /\ UNCHANGED <<coll, svc, rec, updates, faults>>

\* The worker dies, or a callback raises and swallows it.
LoseTask(t) ==
    /\ Fault("lose")
    /\ Done(t)
    /\ UNCHANGED <<coll, row, svc, rec, updates>>

\* acks_late: the message is delivered a second time, from its start.
RedeliverTask(t) ==
    /\ FreeMessages # {} /\ Fault("redeliver")
    /\ tasks' = tasks \cup {Queued(t.id, t.coll, t.version)}
    /\ UNCHANGED <<coll, row, svc, rec, updates>>

-----------------------------------------------------------------------------
Init ==
    /\ coll = [c \in Collections |-> [status |-> "NONE", enabled |-> FALSE,
                                      text |-> "user"]]
    /\ row = [c \in Collections |-> NoRow]
    /\ svc = [q \in Clients |-> NoRequest]
    /\ rec = [r \in Reconcilers |-> IdleRound]
    /\ tasks = {}
    /\ updates = 0 /\ faults = 0

RequestEnds(q) == ReadTrigger(q) \/ Bump(q) \/ Insert(q) \/ Remove(q) \/ EndsInVain(q)

RequestStep(q) ==
    \/ \E c \in Collections :
         CreateCollection(q, c) \/ UpdateCollection(q, c) \/ DeleteCollection(q, c)
    \/ RequestEnds(q)
    \/ RequestDies(q)

RoundWorks(r) ==
    \/ Scan(r) \/ Claim(r) \/ ClaimFails(r) \/ Dispatch(r) \/ CommitClaim(r)
    \/ EndRound(r)
    \/ \E c \in Collections : Pick(r, c) \/ PickRaises(r, c)

RoundStep(r) == RoundWorks(r) \/ DispatchFails(r) \/ RoundDies(r)

TaskWorks(t) ==
    \/ StartTask(t) \/ ReadCollection(t) \/ CompleteSummary(t)
    \/ CompletionIgnored(t) \/ FailSummary(t)

TaskStep(t) ==
    TaskWorks(t) \/ GenerationFails(t) \/ LoseTask(t) \/ RedeliverTask(t)

Next ==
    \/ \E q \in Clients : RequestStep(q)
    \/ \E r \in Reconcilers : RoundStep(r)
    \/ \E t \in tasks : TaskStep(t)

Spec == Init /\ [][Next]_vars

\* Requests in progress end, Celery beat starts a round every minute and a
\* round goes on, workers keep consuming messages.
Fairness ==
    /\ \A q \in Clients : WF_vars(RequestEnds(q))
    /\ \A r \in Reconcilers : WF_vars(RoundWorks(r))
    /\ \A m \in Messages : WF_vars(\E t \in tasks : t.msg = m /\ TaskWorks(t))

FairSpec == Spec /\ Fairness

-----------------------------------------------------------------------------
(* Properties                                                              *)

TypeOK ==
    /\ coll \in [Collections -> Collection]
    /\ row \in [Collections -> Row \cup {NoRow}]
    /\ svc \in [Clients -> Request \cup {NoRequest}]
    /\ rec \in [Reconcilers -> Round]
    /\ tasks \subseteq Task
    /\ updates \in 0..MaxUpdates /\ faults \in 0..MaxFaults

HeldRow(r, c) ==
    /\ Exists(c) /\ row[c].status # "GENERATING"
    /\ c = rec[r].cur => Claimable(rec[r].seen[c], c)
    /\ \A s \in Reconcilers \ {r} : c \notin rec[s].held

\* Between the UPDATE of a claim and its commit other rounds, requests and
\* callbacks run; whatever they do, the row a session still holds is the one
\* it selected, not being generated, at the version it will dispatch
\* (_claim_summary_for_processing), and no other session holds it.
HeldStaysClaimable ==
    \A r \in Reconcilers : \A c \in rec[r].held : HeldRow(r, c)

\* A round claims each row of its list once: what it holds besides cur is off
\* the list, and cur is a row it has read (_reconcile_single_summary).
RoundsAgree ==
    \A r \in Reconcilers :
      /\ rec[r].pc \in {"idle", "picking"} => rec[r].cur = "NONE"
      /\ rec[r].pc \notin {"idle", "picking"} =>
           /\ rec[r].cur \in Collections
           /\ rec[r].seen[rec[r].cur] # NotSeen
      /\ rec[r].pc = "claiming" => rec[r].cur \notin rec[r].held
      /\ \A c \in rec[r].held : c = rec[r].cur \/ rec[r].seen[c] = NotSeen

\* A request that will write over a row has read one, and, when requests do
\* not overlap, still knows its version.
RequestsAgree ==
    \A q \in Clients : (~Idle(q) /\ svc[q].pc \in {"bump", "remove"}) =>
      /\ svc[q].id \in Ids
      /\ ((\A p \in Clients : p = q) /\ row[svc[q].coll].id = svc[q].id)
           => svc[q].version = row[svc[q].coll].version

\* The inductive invariant.
IndInv == TypeOK /\ HeldStaysClaimable /\ RoundsAgree /\ RequestsAgree

\* Two generations of one summary never run side by side, whichever requests
\* and rounds overlap: the claims of rounds exclude each other, and a summary
\* claimed again after a failure finds the task that failed gone.  A request
\* gives the row a new version but never takes it out of GENERATING.
OneTaskPerSummary ==
    \A t, u \in tasks : t.id = u.id => t = u

\* A description written by the pipeline comes together with the completion of
\* the collection's current summary version, and not to a deleted collection:
\* a late or repeated task cannot write a description of its own
\* (on_summary_generated).
DescriptionFollowsSummary ==
    [][\A c \in Collections :
         (coll'[c].text = "summary" /\ coll[c].text = "user") =>
           /\ Live(c)
           /\ row[c].status = "GENERATING" /\ row'[c].status = "COMPLETE"
           /\ row'[c].observed = row[c].version]_vars

\* A new summary, and one whose generation failed, is taken up by a round or
\* dropped (reconcile_all).
WaitingIsTakenUp ==
    \A c \in Collections :
      (row[c].status \in {"PENDING", "FAILED"})
        ~> (row[c].status \in {"GENERATING", "NONE"})

\* The pipeline implements the atomic life of summaries.
Lifecycle == INSTANCE SummaryLifecycle WITH
    text <- [c \in Collections |-> coll[c].text]
ImplementsLifecycle == Lifecycle!Spec

=============================================================================
