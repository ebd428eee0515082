----------------------------- MODULE Evaluation -----------------------------
(***************************************************************************)
(* Evaluations (evaluation_service.py, db/repositories/evaluation.py): a   *)
(* periodic scheduler starts the evaluations that wait and drives those    *)
(* that run; batch tasks, under a lock of Redis that expires               *)
(* (redis_lock.py), hand out the items of an evaluation and finalise it;   *)
(* item tasks claim an item, let the agent answer and a judge score it.    *)
(* Users pause, resume, retry and delete meanwhile.                        *)
(*                                                                         *)
(* An item may be sent twice before it is claimed, and again when its      *)
(* worker dies, and an evaluation be scheduled twice before the first      *)
(* message is taken: two messages of either are kept apart.  Two messages  *)
(* of one batch do what two sent one after the other do, and are one.      *)
(* Scores and completed_questions, which no task or request looks at, are  *)
(* left out.  So is time: a key may expire, and an item be found stuck, at *)
(* any moment.                                                             *)
(***************************************************************************)
EXTENDS Integers, FiniteSets

CONSTANTS
    Evals,
    Items,
    EvalOf,         \* the evaluation of each item
    MaxEvals,       \* MAX_CONCURRENT_EVALUATIONS
    MaxTasks,       \* MAX_CONCURRENT_PROCESSING_TASKS_PER_EVALUATION
    Batches,        \* bound: batch tasks under way
    Runs,           \* bound: item tasks under way
    None,
    MaxAsked,       \* bound: requests of the user
    MaxFaults       \* bound: workers that die, exceptions

ASSUME ConstantsAssumption ==
    /\ IsFiniteSet(Items)
    /\ EvalOf \in [Items -> Evals]
    /\ None \notin Batches \cup Items \cup Evals
    /\ MaxEvals \in Nat \ {0} /\ MaxTasks \in Nat \ {0}
    /\ MaxAsked \in Nat /\ MaxFaults \in Nat

VARIABLES
    status,      \* Evaluation.status
    deleted,     \* evaluations whose gmt_deleted is set
    items,       \* EvaluationItem.status
    key,         \* the batch task whose value the lock's key holds in Redis
    queue,       \* messages to workers
    batch,
    run,
    ask,         \* a pause or a resumption whose transaction is open
    asked, faults,
    overtaken,   \* history: items taken back while a run worked on them
    reopened     \* history: evaluations whose last retry met a batch task
                 \* that had found all their items ended

vars == <<status, deleted, items, key, queue, batch, run, ask,
          asked, faults, overtaken, reopened>>

Status == {"none", "PENDING", "RUNNING", "PAUSED", "COMPLETED", "FAILED"}
ItemStatus == {"PENDING", "RUNNING", "COMPLETED", "FAILED"}
Message == [to: {"init", "reinit", "batch"}, of: Evals]
           \cup [to: {"item", "again"}, of: Items]
Initialize(e) == [to |-> "init", of |-> e]
InitializeAgain(e) == [to |-> "reinit", of |-> e]
Scheduled(e) == IF Initialize(e) \in queue THEN InitializeAgain(e) ELSE Initialize(e)
Taken(e) == IF InitializeAgain(e) \in queue THEN InitializeAgain(e) ELSE Initialize(e)
Process(e) == [to |-> "batch", of |-> e]
ProcessItem(i, to) == [to |-> to, of |-> i]
Twice(i) == ProcessItem(i, "again") \in queue
Sent(i) == ProcessItem(i, IF ProcessItem(i, "item") \in queue THEN "again" ELSE "item")

\* A batch task: the number of items it saw running, the result it is about
\* to write.
Batch == [of: Evals \cup {None}, stage: {"idle", "count", "select", "check", "score", "write"},
          running: Nat, result: {"none", "COMPLETED", "FAILED"}]
NoBatch == [of |-> None, stage |-> "idle", running |-> 0, result |-> "none"]

\* An item task: the item it works on.
Run == Items \cup {None}

ItemsOf(e) == {i \in Items : EvalOf[i] = e}
In(e, states) == {i \in ItemsOf(e) : items[i] \in states}
Working(i) == \E t \in Runs : run[t] = i
Running(e) == status[e] = "RUNNING"

-----------------------------------------------------------------------------
(* The scheduler, every five minutes and after requests                    *)

\* Deleted evaluations are neither left out nor left uncounted.
ScheduleNew ==
    LET slots == MaxEvals - Cardinality({e \in Evals : Running(e)})
        waiting == {e \in Evals : status[e] = "PENDING"} IN
    /\ \E new \in SUBSET waiting :
         /\ new # {} /\ Cardinality(new) <= slots
         /\ new = waiting \/ Cardinality(new) = slots
         /\ queue' = queue \cup {Scheduled(e) : e \in new}
    /\ UNCHANGED <<status, deleted, items, key, batch, run, ask,
                   asked, faults, overtaken, reopened>>

\* A bug: the items of dead workers are left as they are.
CoordinateOnly(e, stuck) ==
    /\ Running(e) /\ stuck \subseteq In(e, {"RUNNING"})
    /\ queue' = queue \cup {Process(e)}
    /\ UNCHANGED <<status, deleted, items, key, batch, run, ask, asked, faults, overtaken, reopened>>

\* An item that is RUNNING may at any time have been so for longer than
\* EVALUATION_ITEM_PROCESSING_TASK_TIMEOUT_MINUTES.
Coordinate(e, stuck) ==
    /\ Running(e) /\ stuck \subseteq In(e, {"RUNNING"})
    /\ items' = [i \in Items |-> IF i \in stuck THEN "PENDING" ELSE items[i]]
    /\ overtaken' = overtaken \cup {i \in stuck : Working(i)}
    /\ queue' = queue \cup {Process(e)}
    /\ UNCHANGED <<status, deleted, key, batch, run, ask, asked, faults, reopened>>

\* Whatever the status was: PAUSED, or COMPLETED, when the message is late.
InitializeEvaluation(e) ==
    /\ Initialize(e) \in queue
    /\ status' = [status EXCEPT ![e] = "RUNNING"]
    /\ queue' = (queue \ {Taken(e)}) \cup {Process(e)}
    /\ UNCHANGED <<deleted, items, key, batch, run, ask,
                   asked, faults, overtaken, reopened>>

InitializationFails(e) ==
    /\ Initialize(e) \in queue /\ faults < MaxFaults
    /\ status' = [status EXCEPT ![e] = "FAILED"]
    /\ queue' = queue \ {Taken(e)}
    /\ faults' = faults + 1
    /\ UNCHANGED <<deleted, items, key, batch, run, ask,
                   asked, overtaken, reopened>>

-----------------------------------------------------------------------------
(* Batch tasks                                                             *)

Goes(b, new) == batch' = [batch EXCEPT ![b] = new]

\* The script that releases the lock deletes the key if it has this value.
Unlocked(b) == [e \in Evals |-> IF key[e] = b THEN None ELSE key[e]]

Halts(b) == Goes(b, NoBatch) /\ key' = Unlocked(b)

\* SET NX EX, tried a few times: the task is over when the key stays there.
StartBatch(b, e) ==
    /\ batch[b].stage = "idle" /\ Process(e) \in queue
    /\ queue' = queue \ {Process(e)}
    /\ IF key[e] = None
       THEN /\ key' = [key EXCEPT ![e] = b]
            /\ Goes(b, [NoBatch EXCEPT !.of = e, !.stage = "count"])
       ELSE UNCHANGED <<key, batch>>
    /\ UNCHANGED <<status, deleted, items, run, ask, asked, faults, overtaken, reopened>>

Expire(e) ==
    /\ key[e] # None
    /\ key' = [key EXCEPT ![e] = None]
    /\ UNCHANGED <<status, deleted, items, queue, batch,
                   run, ask, asked, faults, overtaken, reopened>>

\* Not in a runnable state, or no slot available: the task is over.
Count(b) ==
    /\ batch[b].stage = "count"
    /\ LET e == batch[b].of
           n == Cardinality(In(e, {"RUNNING"})) IN
       IF e \in deleted \/ ~Running(e) \/ n >= MaxTasks
       THEN Halts(b)
       ELSE Goes(b, [batch[b] EXCEPT !.stage = "select", !.running = n]) /\ UNCHANGED key
    /\ UNCHANGED <<status, deleted, items, queue, run, ask,
                   asked, faults, overtaken, reopened>>

\* As many pending items as there were slots are dispatched; when none is
\* pending and none was running, the evaluation is finalised.
Select(b) ==
    /\ batch[b].stage = "select"
    /\ LET pending == In(batch[b].of, {"PENDING"})
           slots == MaxTasks - batch[b].running IN
       IF pending = {} /\ batch[b].running = 0
       THEN Goes(b, [batch[b] EXCEPT !.stage = "check"]) /\ UNCHANGED <<key, queue>>
       ELSE /\ \E new \in SUBSET pending :
                 /\ Cardinality(new) = slots \/ (new = pending /\ Cardinality(new) < slots)
                 /\ queue' = queue \cup {Sent(i) : i \in new}
            /\ Halts(b)
    /\ UNCHANGED <<status, deleted, items, run, ask, asked,
                   faults, overtaken, reopened>>

\* A bug: the items are not looked at again.
Unfinished(e) == {}

\* _finalize_evaluation verifies that every item has ended ...
Pending(e) == In(e, {"PENDING", "RUNNING"})

Check(b) ==
    /\ batch[b].stage = "check"
    /\ IF Pending(batch[b].of) # {} THEN Halts(b)
       ELSE Goes(b, [batch[b] EXCEPT !.stage = "score"]) /\ UNCHANGED key
    /\ UNCHANGED <<status, deleted, items, queue, run, ask,
                   asked, faults, overtaken, reopened>>

\* ... and counts the FAILED ones in a statement of its own.
Score(b) ==
    /\ batch[b].stage = "score"
    /\ LET failed == In(batch[b].of, {"FAILED"}) IN
       Goes(b, [batch[b] EXCEPT !.stage = "write",
                  !.result = IF failed = {} THEN "COMPLETED" ELSE "FAILED"])
    /\ UNCHANGED <<status, deleted, items, key, queue, run, ask,
                   asked, faults, overtaken, reopened>>

\* The UPDATE asks for RUNNING, and writes what was counted before.
Finalize(b) ==
    /\ batch[b].stage = "write"
    /\ LET e == batch[b].of IN
       IF Running(e)
       THEN status' = [status EXCEPT ![e] = batch[b].result]
       ELSE UNCHANGED status
    /\ Halts(b)
    /\ UNCHANGED <<deleted, items, queue, run, ask, asked, faults, overtaken, reopened>>

\* An exception is logged and the lock released; a worker that dies leaves
\* the lock, and its message is delivered again.
BatchFails(b) ==
    /\ batch[b].stage # "idle" /\ faults < MaxFaults
    /\ \/ Halts(b) /\ UNCHANGED queue
       \/ /\ Goes(b, NoBatch) /\ UNCHANGED key
          /\ queue' = queue \cup {Process(batch[b].of)}
    /\ faults' = faults + 1
    /\ UNCHANGED <<status, deleted, items, run, ask, asked, overtaken, reopened>>

-----------------------------------------------------------------------------
(* Item tasks                                                              *)

Becomes(t, new) == run' = [run EXCEPT ![t] = new]

\* A bug: the claim does not ask whether the item is PENDING.
ClaimableAnyway(i) == items[i] \in ItemStatus

Claimable(i) == items[i] = "PENDING"

\* The conditional UPDATE; an item that is not PENDING is skipped.  The
\* session keeps the rows it then reads while the agent answers.
Claim(t, i) ==
    /\ run[t] = None /\ ProcessItem(i, "item") \in queue
    /\ queue' = queue \ {ProcessItem(i, IF Twice(i) THEN "again" ELSE "item")}
    /\ IF Claimable(i)
       THEN /\ items' = [items EXCEPT ![i] = "RUNNING"]
            /\ Becomes(t, i)
       ELSE UNCHANGED <<items, run>>
    /\ UNCHANGED <<status, deleted, key, batch, ask, asked,
                   faults, overtaken, reopened>>

\* _process_single_item ends; what it writes asks for nothing but the ids.
Finish(t, result) ==
    /\ run[t] # None
    /\ LET i == run[t]
           e == EvalOf[i] IN
       /\ items' = [items EXCEPT ![i] = result]
       /\ queue' = queue \cup {Process(e)}
    /\ Becomes(t, None)
    /\ UNCHANGED <<status, deleted, key, batch, ask, asked, faults, overtaken, reopened>>

\* An exception outside of _process_single_item: the item is FAILED if it is
\* still RUNNING.
ItemFails(t) ==
    /\ run[t] # None /\ faults < MaxFaults
    /\ LET i == run[t] IN
       /\ items' = [items EXCEPT ![i] = IF @ = "RUNNING" THEN "FAILED" ELSE @]
       /\ queue' = queue \cup {Process(EvalOf[i])}
    /\ Becomes(t, None)
    /\ faults' = faults + 1
    /\ UNCHANGED <<status, deleted, key, batch, ask, asked, overtaken, reopened>>

\* The worker dies: the item stays RUNNING; the message is delivered again.
WorkerDies(t) ==
    /\ run[t] # None /\ faults < MaxFaults
    /\ queue' = queue \cup {Sent(run[t])}
    /\ Becomes(t, None)
    /\ faults' = faults + 1
    /\ UNCHANGED <<status, deleted, items, key, batch, ask,
                   asked, overtaken, reopened>>

-----------------------------------------------------------------------------
(* Users                                                                   *)

Asks == asked < MaxAsked /\ asked' = asked + 1

Create(e) ==
    /\ status[e] = "none"
    /\ status' = [status EXCEPT ![e] = "PENDING"]
    /\ UNCHANGED <<deleted, items, key, queue, batch, run,
                   ask, asked, faults, overtaken, reopened>>

\* update_evaluation_status: the row is read, then written by its id.
Ask(e, new, expected) ==
    /\ ask = [of |-> None, new |-> "none"]
    /\ e \notin deleted /\ status[e] \in expected
    /\ ask' = [of |-> e, new |-> new]
    /\ UNCHANGED <<status, deleted, items, key, queue, batch, run,
                   faults, overtaken, reopened>>

\* A bug: a resumed evaluation runs at once, without the scheduler.
ResumeAtOnce(e) == Ask(e, "RUNNING", {"PAUSED"}) /\ UNCHANGED asked

Pause(e) == Ask(e, "PAUSED", {"RUNNING", "PENDING"}) /\ Asks
Resume(e) == Ask(e, "PENDING", {"PAUSED"}) /\ UNCHANGED asked

Answer ==
    /\ ask.of # None
    /\ status' = [status EXCEPT ![ask.of] = ask.new]
    /\ ask' = [of |-> None, new |-> "none"]
    /\ UNCHANGED <<deleted, items, key, queue, batch, run,
                   asked, faults, overtaken, reopened>>

\* A batch task has found every item of e ended, and has still to write so.
Finalizing(e) ==
    \E b \in Batches : batch[b].of = e /\ batch[b].stage \in {"score", "write"}

\* The evaluation is locked and RUNNING again, whatever it was; the items of
\* the scope are PENDING again, whatever works on them.
Retry(e, states) ==
    /\ Asks /\ e \notin deleted /\ status[e] # "none"
    /\ items' = [i \in Items |-> IF i \in In(e, states) THEN "PENDING" ELSE items[i]]
    /\ status' = [status EXCEPT ![e] = "RUNNING"]
    /\ overtaken' = overtaken \cup {i \in In(e, states) : Working(i)}
    /\ reopened' = IF Finalizing(e) THEN reopened \cup {e} ELSE reopened \ {e}
    /\ UNCHANGED <<deleted, key, queue, batch, run, ask, faults>>

Delete(e) ==
    /\ Asks /\ e \notin deleted /\ status[e] # "none"
    /\ deleted' = deleted \cup {e}
    /\ UNCHANGED <<status, items, key, queue, batch, run, ask,
                   faults, overtaken, reopened>>

-----------------------------------------------------------------------------
Init ==
    /\ status = [e \in Evals |-> "none"]
    /\ deleted = {}
    /\ items = [i \in Items |-> "PENDING"]
    /\ key = [e \in Evals |-> None]
    /\ queue = {}
    /\ batch = [b \in Batches |-> NoBatch]
    /\ run = [t \in Runs |-> None]
    /\ ask = [of |-> None, new |-> "none"]
    /\ asked = 0 /\ faults = 0
    /\ overtaken = {} /\ reopened = {}

SchedulerStep(e) ==
    \/ \E stuck \in SUBSET Items : Coordinate(e, stuck)
    \/ InitializeEvaluation(e) \/ Expire(e)

BatchWorks(b) == Count(b) \/ Select(b) \/ Check(b) \/ Score(b) \/ Finalize(b)

RunWorks(t) == Finish(t, "COMPLETED") \/ Finish(t, "FAILED")

UserStep(e) ==
    \/ Create(e) \/ Pause(e) \/ Resume(e) \/ Delete(e)
    \/ Retry(e, ItemStatus) \/ Retry(e, {"FAILED"})

Next ==
    \/ ScheduleNew \/ Answer
    \/ \E e \in Evals : SchedulerStep(e) \/ InitializationFails(e) \/ UserStep(e)
    \/ \E b \in Batches : BatchWorks(b) \/ BatchFails(b) \/ \E e \in Evals : StartBatch(b, e)
    \/ \E t \in Runs : RunWorks(t) \/ ItemFails(t) \/ WorkerDies(t)
                       \/ \E i \in Items : Claim(t, i)

Spec == Init /\ [][Next]_vars

\* The beat never stops: it starts batches, and finds at last an item that
\* stays RUNNING.  Keys expire, idle workers take what waits, tasks go on.
Fairness ==
    /\ \A e \in Evals :
         /\ WF_vars(\E stuck \in SUBSET Items : Coordinate(e, stuck))
         /\ WF_vars(Expire(e))
         /\ WF_vars(\E b \in Batches : StartBatch(b, e))
    /\ \A i \in Items :
         /\ WF_vars(\E stuck \in SUBSET Items : i \in stuck /\ Coordinate(EvalOf[i], stuck))
         /\ WF_vars(\E t \in Runs : Claim(t, i))
    /\ \A b \in Batches : WF_vars(BatchWorks(b))
    /\ \A t \in Runs : WF_vars(RunWorks(t))

FairSpec == Spec /\ Fairness

-----------------------------------------------------------------------------
TypeOK ==
    /\ status \in [Evals -> Status]
    /\ deleted \subseteq Evals
    /\ items \in [Items -> ItemStatus]
    /\ key \in [Evals -> Batches \cup {None}]
    /\ queue \subseteq Message
    /\ batch \in [Batches -> Batch]
    /\ run \in [Runs -> Run]
    /\ ask \in [of: Evals \cup {None}, new: {"none", "PENDING", "PAUSED"}]
    /\ asked \in 0..MaxAsked /\ faults \in 0..MaxFaults
    /\ overtaken \subseteq Items /\ reopened \subseteq Evals

\* No two tasks work on one item, and an item somebody works on is RUNNING,
\* whatever is delivered twice, until the coordinator or a retry takes the
\* item back from a task that still works on it.
OneRunPerItem ==
    \A t \in Runs : (run[t] # None /\ run[t] \notin overtaken) =>
        /\ items[run[t]] = "RUNNING"
        /\ \A u \in Runs : run[u] = run[t] => u = t

\* The last retry of e did not meet a batch task between its count of the
\* items and its UPDATE, and no item of e was taken back from a task at work.
Untouched(e) == e \notin reopened /\ ItemsOf(e) \cap overtaken = {}

\* A COMPLETED evaluation has only COMPLETED items, however many batch tasks
\* decided at once and whoever paused or resumed meanwhile, if it is Untouched:
\* a retry between the counts and the UPDATE makes the evaluation RUNNING,
\* which is all the UPDATE asks for, and a task whose item was taken back
\* still writes the item.
CompletedIsComplete ==
    \A e \in Evals :
        (status[e] = "COMPLETED" /\ Untouched(e))
          => In(e, ItemStatus \ {"COMPLETED"}) = {}

\* An evaluation that runs does not run forever: items of dead workers are
\* reset, lost batches are started again.
RunningEnds == \A e \in Evals : Running(e) ~> ~Running(e) \/ e \in deleted

=============================================================================
