-------------------------- MODULE EvaluationProofs --------------------------
(***************************************************************************)
(* Theorems about Evaluation, for any evaluations, items, limits, and any  *)
(* number of tasks, requests and failures.                                 *)
(***************************************************************************)
EXTENDS Evaluation, FiniteSetTheorems, TLAPS

USE ConstantsAssumption

\* What a batch task that finalises e has seen still holds: every item ended,
\* and all of them COMPLETED if that is what it is about to write.
SeenHolds(b) ==
    /\ batch[b].stage \in {"score", "write"} => In(batch[b].of, {"PENDING", "RUNNING"}) = {}
    /\ (batch[b].stage = "write" /\ batch[b].result = "COMPLETED")
         => In(batch[b].of, {"FAILED"}) = {}

WritesHold == \A b \in Batches : Untouched(batch[b].of) => SeenHolds(b)

BusyBatchHasEvaluation ==
    \A b \in Batches : batch[b].stage # "idle" => batch[b].of \in Evals

IndInv == TypeOK /\ BusyBatchHasEvaluation /\ OneRunPerItem /\ WritesHold
          /\ CompletedIsComplete

-----------------------------------------------------------------------------
(* Types                                                                   *)

LEMMA Counts ==
  ASSUME NEW e, NEW states
  PROVE  Cardinality(In(e, states)) \in Nat
<1>1. In(e, states) \subseteq Items
  BY DEF In, ItemsOf
<1> QED BY <1>1, FS_Subset, FS_CardinalityType

LEMMA Messages ==
  ASSUME NEW e \in Evals, NEW i \in Items
  PROVE  Scheduled(e) \in Message /\ Process(e) \in Message
         /\ Sent(i) \in Message /\ EvalOf[i] \in Evals
  BY SMT DEF Scheduled, Initialize, InitializeAgain, Process, Sent, ProcessItem, Message

LEMMA IdleBatch == NoBatch \in Batch
  BY SMT DEF NoBatch, Batch

LEMMA UnlockedKeys ==
  ASSUME TypeOK, NEW b \in Batches
  PROVE  Unlocked(b) \in [Evals -> Batches \cup {None}]
<1>1. key \in [Evals -> Batches \cup {None}]
  BY DEF TypeOK
<1> QED BY <1>1 DEF Unlocked

LEMMA InitTypes == Init => TypeOK /\ BusyBatchHasEvaluation
<1> SUFFICES ASSUME Init PROVE TypeOK /\ BusyBatchHasEvaluation
  OBVIOUS
<1>1. batch \in [Batches -> Batch]
  BY IdleBatch, Zenon DEF Init
<1>2. ask \in [of: Evals \cup {None}, new: {"none", "PENDING", "PAUSED"}]
  BY SMT DEF Init
<1>3. \A b \in Batches : batch[b].stage = "idle"
  BY DEF Init, NoBatch
<1>4. /\ status \in [Evals -> Status] /\ items \in [Items -> ItemStatus]
      /\ key \in [Evals -> Batches \cup {None}] /\ run \in [Runs -> Run]
  BY DEF Init, Status, ItemStatus, Run
<1>5. /\ deleted \subseteq Evals /\ queue \subseteq Message /\ overtaken \subseteq Items
      /\ reopened \subseteq Evals
  BY Zenon DEF Init
<1>6. asked \in 0..MaxAsked /\ faults \in 0..MaxFaults
  <2>1. MaxAsked \in Nat /\ MaxFaults \in Nat /\ asked = 0 /\ faults = 0
    BY DEF Init
  <2> QED BY <2>1
<1> QED BY <1>1, <1>2, <1>3, <1>4, <1>5, <1>6, Zenon DEF TypeOK, BusyBatchHasEvaluation

\* What a task or a request leaves alone keeps its type.
LEMMA BatchGoes ==
  ASSUME TypeOK, BusyBatchHasEvaluation, NEW b \in Batches, NEW new \in Batch,
         new.stage # "idle" => new.of \in Evals, Goes(b, new)
  PROVE  batch' \in [Batches -> Batch] /\ BusyBatchHasEvaluation'
<1>1. batch \in [Batches -> Batch]
  BY DEF TypeOK
<1>2. batch' = [batch EXCEPT ![b] = new]
  BY DEF Goes
<1>3. batch' \in [Batches -> Batch]
  BY <1>1, <1>2
<1>4. \A c \in Batches : batch'[c] = IF c = b THEN new ELSE batch[c]
  BY <1>1, <1>2
<1> QED BY <1>3, <1>4 DEF BusyBatchHasEvaluation

LEMMA BatchHalts ==
  ASSUME TypeOK, BusyBatchHasEvaluation, NEW b \in Batches, Halts(b)
  PROVE  batch' \in [Batches -> Batch] /\ BusyBatchHasEvaluation'
         /\ key' \in [Evals -> Batches \cup {None}]
<1>1. NoBatch.stage = "idle"
  BY DEF NoBatch
<1>2. Goes(b, NoBatch) /\ key' = Unlocked(b)
  BY DEF Halts
<1> QED BY <1>1, <1>2, IdleBatch, BatchGoes, UnlockedKeys

LEMMA SchedulerTypes ==
  ASSUME TypeOK, BusyBatchHasEvaluation,
         \/ ScheduleNew
         \/ \E e \in Evals : SchedulerStep(e) \/ InitializationFails(e)
  PROVE  TypeOK' /\ BusyBatchHasEvaluation'
<1>1. CASE ScheduleNew
  <2>1. PICK new \in SUBSET Evals : queue' = queue \cup {Scheduled(e) : e \in new}
    BY <1>1, Zenon DEF ScheduleNew
  <2>2. \A e \in Evals : Scheduled(e) \in Message
    BY DEF Scheduled, Initialize, InitializeAgain, Message
  <2>3. queue' \subseteq Message
    BY <2>1, <2>2 DEF TypeOK
  <2> QED BY <1>1, <2>3 DEF ScheduleNew, TypeOK, BusyBatchHasEvaluation
<1>2. ASSUME NEW e \in Evals, NEW stuck \in SUBSET Items, Coordinate(e, stuck)
      PROVE  TypeOK' /\ BusyBatchHasEvaluation'
  <2>1. queue' \subseteq Message
    BY <1>2 DEF Coordinate, Process, Message, TypeOK
  <2>2. items' \in [Items -> ItemStatus]
    BY <1>2 DEF Coordinate, TypeOK, ItemStatus
  <2>3. overtaken' \subseteq Items
    BY <1>2 DEF Coordinate, TypeOK
  <2> QED BY <1>2, <2>1, <2>2, <2>3 DEF Coordinate, TypeOK, BusyBatchHasEvaluation
<1>3. ASSUME NEW e \in Evals, InitializeEvaluation(e)
      PROVE  TypeOK' /\ BusyBatchHasEvaluation'
  <2>1. queue' \subseteq Message
    BY <1>3 DEF InitializeEvaluation, Process, Message, TypeOK
  <2>2. status' \in [Evals -> Status]
    BY <1>3 DEF InitializeEvaluation, TypeOK, Status
  <2> QED BY <1>3, <2>1, <2>2 DEF InitializeEvaluation, TypeOK, BusyBatchHasEvaluation
<1>4. ASSUME NEW e \in Evals, InitializationFails(e)
      PROVE  TypeOK' /\ BusyBatchHasEvaluation'
  <2>1. queue' \subseteq Message /\ faults' \in 0..MaxFaults
    BY <1>4 DEF InitializationFails, TypeOK
  <2>2. status' \in [Evals -> Status]
    BY <1>4 DEF InitializationFails, TypeOK, Status
  <2> QED BY <1>4, <2>1, <2>2 DEF InitializationFails, TypeOK, BusyBatchHasEvaluation
<1>5. ASSUME NEW e \in Evals, Expire(e)
      PROVE  TypeOK' /\ BusyBatchHasEvaluation'
  <2>1. key' \in [Evals -> Batches \cup {None}]
    BY <1>5 DEF Expire, TypeOK
  <2> QED BY <1>5, <2>1 DEF Expire, TypeOK, BusyBatchHasEvaluation
<1> QED BY <1>1, <1>2, <1>3, <1>4, <1>5 DEF SchedulerStep

LEMMA BatchTypes ==
  ASSUME TypeOK, BusyBatchHasEvaluation, NEW b \in Batches,
         BatchWorks(b) \/ BatchFails(b) \/ \E e \in Evals : StartBatch(b, e)
  PROVE  TypeOK' /\ BusyBatchHasEvaluation'
<1> DEFINE e == batch[b].of
<1>1. batch[b] \in Batch /\ batch \in [Batches -> Batch]
  BY DEF TypeOK
<1>2. batch[b].stage # "idle" => e \in Evals
  BY DEF BusyBatchHasEvaluation
<1>3. CASE Count(b)
  <2>1. batch' \in [Batches -> Batch] /\ BusyBatchHasEvaluation'
        /\ key' \in [Evals -> Batches \cup {None}]
    <3>1. CASE Halts(b)
      BY <3>1, BatchHalts
    <3>2. CASE Goes(b, [batch[b] EXCEPT !.stage = "select",
                          !.running = Cardinality(In(e, {"RUNNING"}))]) /\ UNCHANGED key
      <4> DEFINE new == [batch[b] EXCEPT !.stage = "select",
                          !.running = Cardinality(In(e, {"RUNNING"}))]
      <4>1. Cardinality(In(e, {"RUNNING"})) \in Nat
        BY Counts
      <4>2. new \in Batch /\ new.of = e
        BY <1>1, <4>1 DEF Batch
      <4>3. batch[b].stage # "idle"
        BY <1>3 DEF Count
      <4>4. Goes(b, new) /\ key' = key
        BY <3>2
      <4> HIDE DEF new
      <4>5. batch' \in [Batches -> Batch] /\ BusyBatchHasEvaluation'
        BY <4>2, <4>3, <4>4, <1>2, BatchGoes
      <4> QED BY <4>4, <4>5 DEF TypeOK
    <3> QED BY <1>3, <3>1, <3>2, Zenon DEF Count
  <2> QED BY <1>3, <2>1 DEF Count, TypeOK
<1>4. CASE Select(b)
  <2>1. batch' \in [Batches -> Batch] /\ BusyBatchHasEvaluation'
        /\ key' \in [Evals -> Batches \cup {None}]
    <3>1. CASE Halts(b)
      BY <3>1, BatchHalts
    <3>2. CASE Goes(b, [batch[b] EXCEPT !.stage = "check"]) /\ UNCHANGED <<key, queue>>
      <4> DEFINE new == [batch[b] EXCEPT !.stage = "check"]
      <4>1. new \in Batch /\ new.of = e
        BY <1>1 DEF Batch
      <4>2. batch[b].stage # "idle"
        BY <1>4 DEF Select
      <4>3. Goes(b, new) /\ key' = key
        BY <3>2
      <4> HIDE DEF new
      <4>4. batch' \in [Batches -> Batch] /\ BusyBatchHasEvaluation'
        BY <4>1, <4>2, <4>3, <1>2, BatchGoes
      <4> QED BY <4>3, <4>4 DEF TypeOK
    <3> QED BY <1>4, <3>1, <3>2, Zenon DEF Select
  <2>2. queue' \subseteq Message
    <3>1. CASE queue' = queue
      BY <3>1 DEF TypeOK
    <3>2. CASE \E new \in SUBSET In(e, {"PENDING"}) : queue' = queue \cup {Sent(i) : i \in new}
      <4>1. In(e, {"PENDING"}) \subseteq Items
        BY DEF In, ItemsOf
      <4>2. PICK new \in SUBSET Items : queue' = queue \cup {Sent(i) : i \in new}
        BY <3>2, <4>1, Zenon
      <4>3. \A i \in Items : Sent(i) \in Message
        BY DEF Sent, ProcessItem, Message
      <4>4. queue \subseteq Message
        BY DEF TypeOK
      <4> SUFFICES ASSUME NEW m \in queue' PROVE m \in Message
        OBVIOUS
      <4>5. m \in queue \/ \E i \in new : m = Sent(i)
        BY <4>2, Zenon
      <4> QED BY <4>3, <4>4, <4>5, Zenon
    <3> QED BY <1>4, <3>1, <3>2, Zenon DEF Select
  <2> QED BY <1>4, <2>1, <2>2 DEF Select, TypeOK
<1>5. CASE Check(b) \/ Score(b)
  <2>1. batch' \in [Batches -> Batch] /\ BusyBatchHasEvaluation'
        /\ key' \in [Evals -> Batches \cup {None}]
    <3>1. CASE Halts(b)
      BY <3>1, BatchHalts
    <3>2. ASSUME NEW new, new \in Batch, new.of = e, Goes(b, new), key' = key
          PROVE  batch' \in [Batches -> Batch] /\ BusyBatchHasEvaluation'
                 /\ key' \in [Evals -> Batches \cup {None}]
      <4>1. batch[b].stage # "idle"
        BY <1>5 DEF Check, Score
      <4>2. batch' \in [Batches -> Batch] /\ BusyBatchHasEvaluation'
        BY <3>2, <4>1, <1>2, BatchGoes
      <4> QED BY <3>2, <4>2 DEF TypeOK
    <3>3. /\ [batch[b] EXCEPT !.stage = "score"] \in Batch
          /\ [batch[b] EXCEPT !.stage = "score"].of = e
      BY <1>1 DEF Batch
    <3>4. \A result \in {"COMPLETED", "FAILED"} :
            /\ [batch[b] EXCEPT !.stage = "write", !.result = result] \in Batch
            /\ [batch[b] EXCEPT !.stage = "write", !.result = result].of = e
      BY <1>1 DEF Batch
    <3>5. CASE Check(b)
      BY <3>1, <3>2, <3>3, <3>5, Zenon DEF Check
    <3>6. CASE Score(b)
      BY <3>2, <3>4, <3>6 DEF Score
    <3> QED BY <1>5, <3>5, <3>6
  <2> QED BY <1>5, <2>1 DEF Check, Score, TypeOK
<1>6. CASE Finalize(b)
  <2>1. batch[b].result \in Status \/ batch[b].result = "none"
    BY <1>1 DEF Batch, Status
  <2>2. status' \in [Evals -> Status]
    BY <1>6, <2>1 DEF Finalize, Running, TypeOK, Status
  <2>3. Halts(b)
    BY <1>6 DEF Finalize
  <2> QED BY <1>6, <2>2, <2>3, BatchHalts DEF Finalize, TypeOK
<1>7. CASE BatchFails(b)
  <2>1. batch' \in [Batches -> Batch] /\ BusyBatchHasEvaluation'
        /\ key' \in [Evals -> Batches \cup {None}]
    <3>1. NoBatch.stage = "idle"
      BY DEF NoBatch
    <3>2. Halts(b) \/ (Goes(b, NoBatch) /\ key' = key)
      BY <1>7 DEF BatchFails
    <3> QED BY <3>1, <3>2, BatchHalts, BatchGoes, IdleBatch DEF TypeOK
  <2>2. queue' \subseteq Message /\ faults' \in 0..MaxFaults
    <3>1. batch[b].of \in Evals
      BY <1>2, <1>7 DEF BatchFails
    <3>2. queue' = queue \/ queue' = queue \cup {Process(batch[b].of)}
      BY <1>7 DEF BatchFails
    <3> QED BY <1>7, <3>1, <3>2 DEF BatchFails, Process, Message, TypeOK
  <2> QED BY <1>7, <2>1, <2>2 DEF BatchFails, TypeOK
<1>8. ASSUME NEW f \in Evals, StartBatch(b, f)
      PROVE  TypeOK' /\ BusyBatchHasEvaluation'
  <2> DEFINE new == [NoBatch EXCEPT !.of = f, !.stage = "count"]
  <2>1. new \in Batch /\ new.of = f
    BY DEF NoBatch, Batch
  <2>2. batch' \in [Batches -> Batch] /\ BusyBatchHasEvaluation'
        /\ key' \in [Evals -> Batches \cup {None}]
    <3>1. CASE key' = [key EXCEPT ![f] = b] /\ Goes(b, new)
      <4> HIDE DEF new
      <4>1. batch' \in [Batches -> Batch] /\ BusyBatchHasEvaluation'
        BY <2>1, <3>1, BatchGoes
      <4> QED BY <3>1, <4>1 DEF TypeOK
    <3>2. CASE UNCHANGED <<key, batch>>
      BY <3>2 DEF TypeOK, BusyBatchHasEvaluation
    <3> QED BY <1>8, <3>1, <3>2, Zenon DEF StartBatch
  <2>3. queue' \subseteq Message
    BY <1>8 DEF StartBatch, TypeOK
  <2> QED BY <1>8, <2>2, <2>3 DEF StartBatch, TypeOK
<1> QED BY <1>3, <1>4, <1>5, <1>6, <1>7, <1>8 DEF BatchWorks

LEMMA RunTypes ==
  ASSUME TypeOK, BusyBatchHasEvaluation, NEW t \in Runs,
         RunWorks(t) \/ ItemFails(t) \/ WorkerDies(t) \/ \E i \in Items : Claim(t, i)
  PROVE  TypeOK' /\ BusyBatchHasEvaluation'
<1>1. ASSUME NEW result \in {"COMPLETED", "FAILED"}, Finish(t, result)
      PROVE  TypeOK' /\ BusyBatchHasEvaluation'
  <2>1. run[t] \in Items
    BY <1>1 DEF Finish, TypeOK, Run
  <2>2. items' \in [Items -> ItemStatus] /\ run' \in [Runs -> Run]
    BY <1>1, <2>1 DEF Finish, Becomes, TypeOK, ItemStatus, Run
  <2>3. queue' \subseteq Message
    BY <1>1, <2>1, Messages DEF Finish, TypeOK
  <2> QED BY <1>1, <2>2, <2>3 DEF Finish, TypeOK, BusyBatchHasEvaluation
<1>2. CASE ItemFails(t)
  <2>1. run[t] \in Items
    BY <1>2 DEF ItemFails, TypeOK, Run
  <2>2. items' \in [Items -> ItemStatus] /\ run' \in [Runs -> Run]
    BY <1>2, <2>1 DEF ItemFails, Becomes, TypeOK, ItemStatus, Run
  <2>3. queue' \subseteq Message
    BY <1>2, <2>1, Messages DEF ItemFails, TypeOK
  <2>4. faults' \in 0..MaxFaults
    BY <1>2 DEF ItemFails, TypeOK
  <2> QED BY <1>2, <2>2, <2>3, <2>4 DEF ItemFails, TypeOK, BusyBatchHasEvaluation
<1>3. CASE WorkerDies(t)
  <2>1. run[t] \in Items
    BY <1>3 DEF WorkerDies, TypeOK, Run
  <2>2. run' \in [Runs -> Run]
    BY <1>3, <2>1 DEF WorkerDies, Becomes, TypeOK, Run
  <2>3. queue' \subseteq Message
    <3>1. Sent(run[t]) \in Message
      BY <2>1 DEF Sent, ProcessItem, Message
    <3> QED BY <1>3, <3>1 DEF WorkerDies, TypeOK
  <2>4. faults' \in 0..MaxFaults
    BY <1>3 DEF WorkerDies, TypeOK
  <2> QED BY <1>3, <2>2, <2>3, <2>4 DEF WorkerDies, TypeOK, BusyBatchHasEvaluation
<1>4. ASSUME NEW i \in Items, Claim(t, i)
      PROVE  TypeOK' /\ BusyBatchHasEvaluation'
  <2>1. items' \in [Items -> ItemStatus] /\ run' \in [Runs -> Run]
    BY <1>4 DEF Claim, Becomes, TypeOK, ItemStatus, Run
  <2>2. queue' \subseteq Message
    BY <1>4 DEF Claim, TypeOK
  <2> QED BY <1>4, <2>1, <2>2 DEF Claim, TypeOK, BusyBatchHasEvaluation
<1> QED BY <1>1, <1>2, <1>3, <1>4 DEF RunWorks

LEMMA UserTypes ==
  ASSUME TypeOK, BusyBatchHasEvaluation, Answer \/ \E e \in Evals : UserStep(e)
  PROVE  TypeOK' /\ BusyBatchHasEvaluation'
<1>1. CASE Answer
  <2>1. ask \in [of: Evals \cup {None}, new: {"none", "PENDING", "PAUSED"}]
    BY DEF TypeOK
  <2>2. ask.new \in Status
    BY <2>1 DEF Status
  <2>3. status' \in [Evals -> Status]
    BY <1>1, <2>2 DEF Answer, TypeOK
  <2>4. ask' \in [of: Evals \cup {None}, new: {"none", "PENDING", "PAUSED"}]
    BY <1>1 DEF Answer
  <2> QED BY <1>1, <2>3, <2>4 DEF Answer, TypeOK, BusyBatchHasEvaluation
<1>2. ASSUME NEW e \in Evals, UserStep(e)
      PROVE  TypeOK' /\ BusyBatchHasEvaluation'
  <2>1. ASSUME NEW new \in {"PAUSED", "PENDING"}, NEW expected, Ask(e, new, expected),
               asked' \in 0..MaxAsked
        PROVE  TypeOK' /\ BusyBatchHasEvaluation'
    <3>1. ask' \in [of: Evals \cup {None}, new: {"none", "PENDING", "PAUSED"}]
      BY <2>1 DEF Ask
    <3> QED BY <2>1, <3>1 DEF Ask, TypeOK, BusyBatchHasEvaluation
  <2>2. Asks => asked' \in 0..MaxAsked
    BY DEF Asks, TypeOK
  <2>3. CASE Create(e)
    <3>1. status' \in [Evals -> Status]
      BY <2>3 DEF Create, TypeOK, Status
    <3> QED BY <2>3, <3>1 DEF Create, TypeOK, BusyBatchHasEvaluation
  <2>4. CASE Pause(e)
    BY <2>1, <2>2, <2>4 DEF Pause
  <2>5. CASE Resume(e)
    BY <2>1, <2>5 DEF Resume, TypeOK
  <2>6. CASE Delete(e)
    BY <2>2, <2>6 DEF Delete, TypeOK, BusyBatchHasEvaluation
  <2>7. ASSUME NEW states, Retry(e, states)
        PROVE  TypeOK' /\ BusyBatchHasEvaluation'
    <3>1. status' \in [Evals -> Status]
      BY <2>7 DEF Retry, TypeOK, Status
    <3>2. items' \in [Items -> ItemStatus]
      BY <2>7 DEF Retry, TypeOK, ItemStatus
    <3>3. overtaken' \subseteq Items /\ reopened' \subseteq Evals
      BY <2>7 DEF Retry, In, ItemsOf, TypeOK
    <3> QED BY <2>2, <2>7, <3>1, <3>2, <3>3 DEF Retry, TypeOK, BusyBatchHasEvaluation
  <2> QED BY <1>2, <2>3, <2>4, <2>5, <2>6, <2>7 DEF UserStep
<1> QED BY <1>1, <1>2

LEMMA StepTypes ==
  ASSUME TypeOK, BusyBatchHasEvaluation, [Next]_vars
  PROVE  TypeOK' /\ BusyBatchHasEvaluation'
<1>1. CASE UNCHANGED vars
  BY <1>1 DEF vars, TypeOK, BusyBatchHasEvaluation
<1> QED BY <1>1, SchedulerTypes, BatchTypes, RunTypes, UserTypes DEF Next

-----------------------------------------------------------------------------
(* What tasks may rely on                                                  *)

LEMMA InitHolds == Init => OneRunPerItem /\ WritesHold /\ CompletedIsComplete
  BY DEF Init, OneRunPerItem, WritesHold, SeenHolds, CompletedIsComplete, NoBatch

\* An evaluation is touched for good, until it is retried.
LEMMA StaysTouched ==
  ASSUME NEW e, overtaken \subseteq overtaken', e \in reopened => e \in reopened',
         Untouched(e)'
  PROVE  Untouched(e)
BY DEF Untouched, ItemsOf

\* Steps that change no item, no task at work and complete no evaluation.
LEMMA NothingMoves ==
  ASSUME IndInv, UNCHANGED <<items, run, batch, overtaken, reopened>>,
         \A f \in Evals : status'[f] = "COMPLETED" => status[f] = "COMPLETED"
  PROVE  OneRunPerItem' /\ WritesHold' /\ CompletedIsComplete'
<1>1. \A e : \A states : In(e, states)' = In(e, states)
  BY DEF In, ItemsOf
<1>2. \A e : Untouched(e)' = Untouched(e)
  BY DEF Untouched, ItemsOf
<1>3. OneRunPerItem'
  BY DEF IndInv, OneRunPerItem
<1>4. WritesHold'
  BY <1>1, <1>2 DEF IndInv, WritesHold, SeenHolds
<1> QED BY <1>1, <1>2, <1>3, <1>4 DEF IndInv, CompletedIsComplete

LEMMA SchedulerKeeps ==
  ASSUME IndInv,
         \/ ScheduleNew
         \/ \E e \in Evals : SchedulerStep(e) \/ InitializationFails(e)
  PROVE  OneRunPerItem' /\ WritesHold' /\ CompletedIsComplete'
<1>1. CASE ScheduleNew
  BY <1>1, NothingMoves DEF ScheduleNew
<1>2. ASSUME NEW e \in Evals, NEW stuck \in SUBSET Items, Coordinate(e, stuck)
      PROVE  OneRunPerItem' /\ WritesHold' /\ CompletedIsComplete'
  <2>1. /\ \A i \in stuck : items[i] = "RUNNING" /\ (Working(i) => i \in overtaken')
        /\ overtaken \subseteq overtaken'
    BY <1>2 DEF Coordinate, In
  <2>2. items' = [i \in Items |-> IF i \in stuck THEN "PENDING" ELSE items[i]]
        /\ UNCHANGED <<run, batch, status, reopened>>
    BY <1>2 DEF Coordinate
  <2>3. run \in [Runs -> Run]
    BY DEF IndInv, TypeOK
  <2>4. OneRunPerItem'
    BY <2>1, <2>2, <2>3 DEF IndInv, OneRunPerItem, Working, Run
  <2>5. \A f : In(f, {"PENDING", "RUNNING"}) = {}
          => (stuck \cap ItemsOf(f) = {} /\ \A states : In(f, states)' = In(f, states))
    BY <2>1, <2>2 DEF In, ItemsOf
  <2>6. \A f : Untouched(f)' => Untouched(f)
    BY <2>1, <2>2, StaysTouched
  <2>7. WritesHold'
    BY <2>2, <2>5, <2>6 DEF IndInv, WritesHold, SeenHolds
  <2>8. CompletedIsComplete'
    <3>1. \A f \in Evals : In(f, ItemStatus \ {"COMPLETED"}) = {}
            => In(f, {"PENDING", "RUNNING"}) = {}
      BY DEF In, ItemStatus
    <3> QED BY <2>2, <2>5, <2>6, <3>1 DEF IndInv, CompletedIsComplete
  <2> QED BY <2>4, <2>7, <2>8
<1>3. ASSUME NEW e \in Evals, InitializeEvaluation(e) \/ InitializationFails(e) \/ Expire(e)
      PROVE  OneRunPerItem' /\ WritesHold' /\ CompletedIsComplete'
  <2>1. UNCHANGED <<items, run, batch, overtaken, reopened>>
    BY <1>3 DEF InitializeEvaluation, InitializationFails, Expire
  <2>2. \A f \in Evals : status'[f] = "COMPLETED" => status[f] = "COMPLETED"
    BY <1>3 DEF InitializeEvaluation, InitializationFails, Expire, IndInv, TypeOK
  <2> QED BY <2>1, <2>2, NothingMoves
<1> QED BY <1>1, <1>2, <1>3 DEF SchedulerStep

LEMMA BatchKeeps ==
  ASSUME IndInv, NEW b \in Batches,
         BatchWorks(b) \/ BatchFails(b) \/ \E e \in Evals : StartBatch(b, e)
  PROVE  OneRunPerItem' /\ WritesHold' /\ CompletedIsComplete'
<1>1. UNCHANGED <<items, run, overtaken, reopened>>
  BY DEF BatchWorks, Count, Select, Check, Score, Finalize, BatchFails, StartBatch
<1>2. /\ \A states, e : In(e, states)' = In(e, states)
      /\ \A e : Untouched(e)' = Untouched(e)
  BY <1>1 DEF In, ItemsOf, Untouched
<1>3. OneRunPerItem'
  BY <1>1 DEF IndInv, OneRunPerItem
<1>4. batch \in [Batches -> Batch] /\ NoBatch.stage = "idle"
  BY DEF IndInv, TypeOK, NoBatch
<1>5. \A c \in Batches \ {b} : batch'[c] = batch[c]
  BY <1>4 DEF BatchWorks, Count, Select, Check, Score, Finalize, BatchFails, StartBatch,
              Halts, Goes
<1>6. \/ UNCHANGED batch
      \/ batch'[b].stage \notin {"score", "write"}
      \/ batch'[b].of = batch[b].of /\ (Untouched(batch[b].of) => SeenHolds(b)')
  <2>1. batch[b] \in Batch
    BY <1>4
  <2>2. Halts(b) => batch'[b].stage = "idle"
    BY <1>4 DEF Halts, Goes
  <2>3. ASSUME NEW new, Goes(b, new) PROVE batch'[b] = new
    BY <1>4, <2>3 DEF Goes
  <2>4. Count(b) => batch'[b].stage \in {"idle", "select"}
    <3> DEFINE new == [batch[b] EXCEPT !.stage = "select",
                         !.running = Cardinality(In(batch[b].of, {"RUNNING"}))]
    <3>1. new.stage = "select"
      BY <2>1 DEF Batch
    <3>2. Count(b) => Halts(b) \/ Goes(b, new)
      BY Zenon DEF Count
    <3> HIDE DEF new
    <3> QED BY <2>2, <2>3, <3>1, <3>2
  <2>5. Select(b) => batch'[b].stage \in {"idle", "check"}
    BY <1>4, <2>1, <2>2 DEF Select, Goes, Batch
  <2>6. Finalize(b) \/ BatchFails(b) => batch'[b].stage = "idle"
    BY <1>4, <2>2 DEF Finalize, BatchFails, Goes
  <2>7. ASSUME NEW e \in Evals, StartBatch(b, e)
        PROVE  UNCHANGED batch \/ batch'[b].stage = "count"
    <3> DEFINE new == [NoBatch EXCEPT !.of = e, !.stage = "count"]
    <3>1. new.stage = "count"
      BY DEF NoBatch
    <3>2. UNCHANGED batch \/ Goes(b, new)
      BY <2>7, Zenon DEF StartBatch
    <3> HIDE DEF new
    <3> QED BY <2>3, <3>1, <3>2
  <2>8. ASSUME Check(b), batch'[b].stage \in {"score", "write"}
        PROVE  batch'[b].of = batch[b].of /\ SeenHolds(b)'
    <3> DEFINE new == [batch[b] EXCEPT !.stage = "score"]
    <3>1. new.of = batch[b].of /\ new.stage = "score"
      BY <2>1 DEF Batch
    <3>2. Pending(batch[b].of) = {} /\ Goes(b, new)
      BY <2>2, <2>8, Zenon DEF Check
    <3> HIDE DEF new
    <3>3. batch'[b] = new
      BY <2>3, <3>2
    <3> QED BY <1>2, <3>1, <3>2, <3>3 DEF SeenHolds, Pending
  <2>9. ASSUME Score(b), Untouched(batch[b].of)
        PROVE  batch'[b].of = batch[b].of /\ SeenHolds(b)'
    <3> DEFINE result == IF In(batch[b].of, {"FAILED"}) = {} THEN "COMPLETED" ELSE "FAILED"
               new == [batch[b] EXCEPT !.stage = "write", !.result = result]
    <3>1. new.of = batch[b].of /\ new.stage = "write" /\ new.result = result
      BY <2>1 DEF Batch
    <3>2. batch[b].stage = "score" /\ Goes(b, new)
      BY <2>9 DEF Score
    <3>3. result = "COMPLETED" => In(batch[b].of, {"FAILED"}) = {}
      OBVIOUS
    <3> HIDE DEF new, result
    <3>4. batch'[b] = new
      BY <2>3, <3>2
    <3>5. In(batch[b].of, {"PENDING", "RUNNING"}) = {}
      BY <2>9, <3>2 DEF IndInv, WritesHold, SeenHolds
    <3> QED BY <1>2, <3>1, <3>3, <3>4, <3>5 DEF SeenHolds
  <2>10. Score(b) => batch'[b].of = batch[b].of
    BY <2>1, <2>3 DEF Score, Batch
  <2> QED BY <2>4, <2>5, <2>6, <2>7, <2>8, <2>9, <2>10 DEF BatchWorks
<1>7. WritesHold'
  BY <1>2, <1>5, <1>6 DEF IndInv, WritesHold, SeenHolds
<1>8. ASSUME NEW e \in Evals, status'[e] = "COMPLETED", status[e] # "COMPLETED",
             Untouched(e)
      PROVE  In(e, ItemStatus \ {"COMPLETED"}) = {}
  <2>1. Finalize(b)
    BY <1>8 DEF BatchWorks, Count, Select, Check, Score, BatchFails, StartBatch
  <2>2. batch[b].of = e /\ batch[b].result = "COMPLETED" /\ batch[b].stage = "write"
    BY <1>8, <2>1 DEF Finalize, IndInv, TypeOK
  <2>3. In(e, {"PENDING", "RUNNING"}) = {} /\ In(e, {"FAILED"}) = {}
    BY <1>8, <2>2 DEF IndInv, WritesHold, SeenHolds
  <2> QED BY <2>3 DEF In, ItemStatus
<1> QED BY <1>2, <1>3, <1>7, <1>8 DEF IndInv, CompletedIsComplete

\* An item changes from PENDING or RUNNING: it is of no evaluation that is
\* complete or about to be, or else the evaluation is touched.
LEMMA ItemsOfOthers ==
  ASSUME IndInv, NEW i \in Items, items[i] \in {"PENDING", "RUNNING"} \/ i \in overtaken,
         NEW new, items' = [items EXCEPT ![i] = new],
         UNCHANGED <<status, batch, overtaken, reopened>>
  PROVE  WritesHold' /\ CompletedIsComplete'
<1>1. items \in [Items -> ItemStatus]
  BY DEF IndInv, TypeOK
<1>2. ASSUME NEW e, NEW states, EvalOf[i] # e PROVE In(e, states)' = In(e, states)
  BY <1>1, <1>2 DEF In, ItemsOf
<1>3. \A e : Untouched(e)' = Untouched(e)
  BY DEF Untouched, ItemsOf
<1>4. ASSUME Untouched(EvalOf[i])
      PROVE  /\ i \in In(EvalOf[i], {"PENDING", "RUNNING"})
             /\ i \in In(EvalOf[i], ItemStatus \ {"COMPLETED"})
  <2>1. i \notin overtaken
    BY <1>4 DEF Untouched, ItemsOf
  <2> QED BY <2>1 DEF In, ItemsOf, ItemStatus
<1>5. \A b \in Batches :
        (batch[b].stage \in {"score", "write"} /\ Untouched(batch[b].of)) => batch[b].of # EvalOf[i]
  BY <1>4 DEF IndInv, WritesHold, SeenHolds
<1>6. \A e \in Evals : (status[e] = "COMPLETED" /\ Untouched(e)) => e # EvalOf[i]
  BY <1>4 DEF IndInv, CompletedIsComplete
<1>7. WritesHold'
  BY <1>2, <1>3, <1>5 DEF IndInv, WritesHold, SeenHolds
<1> QED BY <1>2, <1>3, <1>6, <1>7 DEF IndInv, CompletedIsComplete

LEMMA RunKeeps ==
  ASSUME IndInv, NEW t \in Runs,
         RunWorks(t) \/ ItemFails(t) \/ WorkerDies(t) \/ \E i \in Items : Claim(t, i)
  PROVE  OneRunPerItem' /\ WritesHold' /\ CompletedIsComplete'
<1>1. UNCHANGED <<status, batch, overtaken, reopened>>
  BY DEF RunWorks, Finish, ItemFails, WorkerDies, Claim
<1>2. run \in [Runs -> Run] /\ items \in [Items -> ItemStatus]
  BY DEF IndInv, TypeOK
<1>3. \A u \in Runs : run[u] # None =>
        /\ run[u] \in Items
        /\ (run[u] \notin overtaken) =>
             (items[run[u]] = "RUNNING" /\ \A v \in Runs : run[v] = run[u] => v = u)
  BY <1>2 DEF IndInv, OneRunPerItem, Run
<1>4. ASSUME run[t] # None, run' = [run EXCEPT ![t] = None],
             NEW new, items' = [items EXCEPT ![run[t]] = new]
      PROVE  OneRunPerItem' /\ WritesHold' /\ CompletedIsComplete'
  <2>1. OneRunPerItem'
    BY <1>1, <1>2, <1>3, <1>4 DEF OneRunPerItem
  <2> QED BY <1>1, <1>3, <1>4, <2>1, ItemsOfOthers
<1>5. CASE RunWorks(t)
  BY <1>4, <1>5 DEF RunWorks, Finish, Becomes
<1>6. CASE ItemFails(t)
  BY <1>4, <1>6 DEF ItemFails, Becomes
<1>7. CASE WorkerDies(t)
  <2>1. run[t] # None /\ run' = [run EXCEPT ![t] = None] /\ items' = items
    BY <1>7 DEF WorkerDies, Becomes
  <2>2. items' = [items EXCEPT ![run[t]] = items[run[t]]]
    BY <1>2, <2>1
  <2> QED BY <1>4, <2>1, <2>2
<1>8. ASSUME NEW i \in Items, Claim(t, i)
      PROVE  OneRunPerItem' /\ WritesHold' /\ CompletedIsComplete'
  <2>1. CASE UNCHANGED <<items, run>>
    BY <1>1, <2>1, NothingMoves
  <2>2. CASE items[i] = "PENDING" /\ items' = [items EXCEPT ![i] = "RUNNING"]
             /\ run' = [run EXCEPT ![t] = i]
    <3>1. OneRunPerItem'
      BY <1>1, <1>2, <1>3, <2>2 DEF OneRunPerItem
    <3> QED BY <1>1, <2>2, <3>1, ItemsOfOthers
  <2> QED BY <1>8, <2>1, <2>2 DEF Claim, Claimable, Becomes
<1> QED BY <1>5, <1>6, <1>7, <1>8

LEMMA UserKeeps ==
  ASSUME IndInv, Answer \/ \E e \in Evals : UserStep(e)
  PROVE  OneRunPerItem' /\ WritesHold' /\ CompletedIsComplete'
<1>1. status \in [Evals -> Status] /\ items \in [Items -> ItemStatus]
      /\ run \in [Runs -> Run]
  BY DEF IndInv, TypeOK
<1>2. CASE Answer
  <2>1. ask.new # "COMPLETED"
    BY DEF IndInv, TypeOK
  <2> QED BY <1>1, <1>2, <2>1, NothingMoves DEF Answer
<1>3. ASSUME NEW e \in Evals, Create(e) \/ Pause(e) \/ Resume(e) \/ Delete(e)
      PROVE  OneRunPerItem' /\ WritesHold' /\ CompletedIsComplete'
  BY <1>1, <1>3, NothingMoves DEF Create, Pause, Resume, Delete, Ask
<1>4. ASSUME NEW e \in Evals, NEW states, Retry(e, states)
      PROVE  OneRunPerItem' /\ WritesHold' /\ CompletedIsComplete'
  <2>1. /\ \A i \in In(e, states) : Working(i) => i \in overtaken'
        /\ overtaken \subseteq overtaken'
        /\ Finalizing(e) => e \in reopened'
        /\ \A f : f # e => (f \in reopened => f \in reopened')
    BY <1>4 DEF Retry
  <2>2. items' = [i \in Items |-> IF i \in In(e, states) THEN "PENDING" ELSE items[i]]
        /\ status' = [status EXCEPT ![e] = "RUNNING"] /\ run' = run /\ batch' = batch
    BY <1>4 DEF Retry
  <2>3. ASSUME NEW f, f # e
        PROVE  (Untouched(f)' => Untouched(f)) /\ \A some : In(f, some)' = In(f, some)
    <3>1. \A some : In(f, some)' = In(f, some)
      BY <1>1, <2>2, <2>3 DEF In, ItemsOf
    <3> QED BY <2>1, <2>3, <3>1, StaysTouched
  <2>4. OneRunPerItem'
    BY <1>1, <2>1, <2>2 DEF IndInv, OneRunPerItem, Working, Run
  <2>5. \A b \in Batches : batch[b].of = e => (Untouched(e)' => SeenHolds(b)')
    BY <2>1, <2>2 DEF Finalizing, Untouched, SeenHolds
  <2>6. WritesHold'
    BY <2>2, <2>3, <2>5 DEF IndInv, WritesHold, SeenHolds
  <2>7. CompletedIsComplete'
    BY <1>1, <2>2, <2>3 DEF IndInv, CompletedIsComplete
  <2> QED BY <2>4, <2>6, <2>7
<1> QED BY <1>2, <1>3, <1>4 DEF UserStep

-----------------------------------------------------------------------------
(* The theorems                                                            *)

\* The invariant: what batch tasks that are about to write rely on, together
\* with the two properties, is kept by every step of every task, request,
\* crash and expiry.
THEOREM Invariance == Spec => []IndInv
<1>1. Init => IndInv
  BY InitTypes, InitHolds DEF IndInv
<1>2. IndInv /\ [Next]_vars => IndInv'
  <2> SUFFICES ASSUME IndInv, [Next]_vars PROVE IndInv'
    OBVIOUS
  <2>1. TypeOK' /\ BusyBatchHasEvaluation'
    BY StepTypes DEF IndInv
  <2>2. CASE Next
    BY <2>1, <2>2, SchedulerKeeps, BatchKeeps, RunKeeps, UserKeeps DEF Next, IndInv
  <2>3. CASE UNCHANGED vars
    BY <2>1, <2>3, NothingMoves DEF vars, IndInv
  <2> QED BY <2>2, <2>3
<1> QED BY <1>1, <1>2, PTL DEF Spec

\* Rows, the lock's key, messages and tasks keep their types.
THEOREM TypeCorrect == Spec => []TypeOK
<1>1. IndInv => TypeOK
  BY DEF IndInv
<1> QED BY <1>1, Invariance, PTL

\* However often an item is sent and delivered, one task works on it, unless
\* the coordinator or a retry takes it from its task.
THEOREM OneRun == Spec => []OneRunPerItem
<1>1. IndInv => OneRunPerItem
  BY DEF IndInv
<1> QED BY <1>1, Invariance, PTL

\* A COMPLETED evaluation has only COMPLETED items, however many batch tasks
\* hold the expiring lock at once and whoever pauses, resumes or deletes, as
\* long as its last retry did not come between the counts of a batch task and
\* its UPDATE, and no item was taken back from a task at work.
THEOREM Complete == Spec => []CompletedIsComplete
<1>1. IndInv => CompletedIsComplete
  BY DEF IndInv
<1> QED BY <1>1, Invariance, PTL

=============================================================================
