# TLA+ models of ApeRAG

Specifications of the parts of ApeRAG in which several processes work on the
same rows (the API server, the Celery beat and workers, with PostgreSQL and Redis
between them), and of the pages of the two web clients that upload documents.
The modules are translated from the source (paths below are relative to
the repository); `PROJECT.json` maps every definition to its lines.

## 1. The system

| Component | State | Operations | Talks to |
|---|---|---|---|
| Document service (`aperag/service/document_service.py`) | table `document` | create, upload, confirm, delete, rebuild, rebuild failed | index manager, quota, object store; pokes the reconciler after each commit |
| Index manager (`aperag/index/manager.py`) | table `document_index` (status, version, observed_version, index_data) | create or update, mark for deletion | called inside the service's transaction |
| Reconciler (`aperag/tasks/reconciler.py`) | none of its own | select, claim, dispatch; hourly beat and after each request | reads and claims `document_index`, sends Celery messages |
| Celery tasks (`config/celery_tasks.py`, `aperag/tasks/document.py`) | messages, retries | parse, fan out, create / update / delete an index | indexers; callbacks on `document_index` and `document` |
| Indexers (`aperag/index/*.py`) | vector store, Elasticsearch, graph store | create, update, delete | read `index_data` |
| Expiry (`aperag/tasks/collection.py`) | – | UPLOADED documents older than a day become EXPIRED | `document`, object store |
| Quotas (`aperag/service/quota_service.py`) | table `user_quota` | consume, release, recalculate | called by document, collection and bot services |
| Collection summaries (`collection_summary_service.py`, second half of `reconciler.py`) | table `collection_summary` | trigger, claim, generate, call back | Celery, `collection` |
| Evaluations (`evaluation_service.py`) | tables `evaluation`, `evaluation_item` | create, schedule, initialise, process batches and items, finalise, pause, resume, retry, delete | Celery, a Redis lock |
| Locks (`aperag/concurrent_control/`) | Redis keys, `threading.Lock`, a registry | acquire, release, renew | used by the graph merge and by evaluations |
| Flow engine (`aperag/flow/engine.py`) | outputs, event queue | sort, group, execute | node runners; the chat endpoint consumes the events |
| Agent sessions (`aperag/agent/agent_session_manager.py`) | a dictionary of sessions | get or create, clean up, shut down | MCP servers |
| Marketplace (`marketplace_service.py`) | tables `collection_marketplace`, `user_collection_subscription` | publish, unpublish, subscribe, unsubscribe | `collection` |
| Collections (`collection_service.py`) | table `collection` | create, initialise, update, delete | quota, Celery, marketplace |
| Knowledge graph (`aperag/graph/`) | graph store | extract, merge entities under locks, delete | LLM, locks |
| Upload page of the web application (`web/.../documents/upload/document-upload.tsx`) | rows, a busy flag, an abort controller of the module | pick, remove, upload, stop, save, leave | `uploadDocument`, `confirmDocuments` of the API |
| Upload pages of the console (`frontend/.../documents/upload/progress.tsx`) | tasks, a busy flag, an abort flag | select, upload, stop, retry, confirm, leave | the same |
| Parsing, chat, bots, providers, auth, audit, web search, object store, MCP, other pages | mostly one row or one call at a time | | |

What makes them correct:

* index pipeline: every requested version is worked on, by one job, and never an
  older one instead; a row never waits for something nobody does; a deleted
  document stays deleted; what a row says is stored is stored;
* quotas: nothing becomes part of a collection unpaid, and the limit holds;
* summaries: the last version requested is the one shown in the end;
* evaluations: one task works on a question, COMPLETED means that every question
  is, and the evaluation ends;
* upload pages: no file is sent twice at a time, none is forgotten, and the page does
  not stay disabled;
* locks: one holder at a time, and nobody removes another's key;
* flow engine: a node runs once, after all of its predecessors;
* sessions: every initialised session is reachable or torn down;
* marketplace: one active subscription per user, none to an unpublished collection.

The hard behaviours (overlapping transactions at READ COMMITTED, messages
delivered twice or lost, workers that die between two steps, retries that run
late, caches and reads that are stale when used) are listed line by line under
`hazards` in `PROJECT.json`, with the properties that cover them.

## 2. The plan

1. **Index pipeline** – `IndexLifecycle` (abstract), `DocumentIndex` (detailed),
   `DocumentIndexHistory`, `DocumentIndexProofs`, `DocumentIndexJobs`. *Done*: this is what every document goes through.
2. **Collection summaries** – `SummaryLifecycle` (abstract), `CollectionSummary` (detailed), `CollectionSummaryHistory`,
   `CollectionSummaryProofs`, `CollectionSummaryTasks`: the second reconciler, with other
   conditions, other transactions and other failures than the first. *Done*.
3. **Quota** – `QuotaLedger` (abstract), `DocumentQuota` (detailed),
   `DocumentQuotaProofs`: usage against documents, with the requests of
   `document_service`, the expiry and the recalculation. *Done* for documents.
4. **Evaluations** – `Evaluation` with the Redis lock inside, `EvaluationProofs`. *Done*.
5. **Upload pages** – `UploadPage`, `UploadProgress` and their proofs: the two clients
   that drive the requests of `DocumentQuota`. *Done*.
6. **FlowEngine** – the sort and the groups as operators against a reference
   definition, the execution with its events as a state machine.
7. **AgentSessions**, **Marketplace**, the registry of locks of `concurrent_control`.

Theorems planned after those of section 6: for `Evaluation`, a statement per item of what a
late run may write; the order of execution of `FlowEngine`.

## 3. Modules

| Module | Models |
|---|---|
| `IndexLifecycle` | what the pipeline promises about the rows of one document: every transition atomic, no messages, no transactions |
| `DocumentIndex` | the pipeline of one document, with a step for each read, claim, message, external call and commit |
| `DocumentIndexHistory` | `DocumentIndex` with the history variable `lost`: a request has overwritten the version of another one |
| `MCDocumentIndex`, `MCDocumentIndexHistory` | the two with the symmetry sets for TLC |
| `DocumentIndexProofs` | theorems about both: types, row locks, versions, deletions, index data, refinement |
| `DocumentIndexJobs` | theorem about its claims and messages: one job for the current version of an index |
| `SummaryLifecycle` | what the summary pipeline promises about the rows and descriptions of collections, every transition atomic |
| `CollectionSummary` | the requests on collections, the reconciler's rounds with their session, the summary tasks and their callbacks |
| `CollectionSummaryHistory` | `CollectionSummary` with the history variable `crossed`: collections for which a request acted on a replaced config, or died |
| `MCCollectionSummary`, `MCCollectionSummaryHistory` | the two with the symmetry sets for TLC |
| `CollectionSummaryProofs` | theorems about `CollectionSummary`: types, sessions, descriptions, refinement |
| `CollectionSummaryTasks` | theorems about its tasks and about `CollectionSummaryHistory`: one task per summary, rows that match the config |
| `QuotaLedger` | what the quota promises: a counter checked and raised in one step with the documents it pays for |
| `DocumentQuota` | the requests that consume, release, expire and recount, as overlapping transactions with the locks they take |
| `MCDocumentQuota` | `DocumentQuota` with the names of the documents |
| `DocumentQuotaProofs` | theorems about `DocumentQuota` |
| `Evaluation` | the scheduler, the batch tasks under their lock, the item tasks, the requests of users |
| `MCEvaluation` | `Evaluation` with the items of an evaluation |
| `EvaluationProofs` | theorems about `Evaluation` |
| `UploadPage`, `UploadPageProofs` | the upload page of the web application with its file picker |
| `UploadProgress`, `UploadProgressProofs` | the selection and progress pages of the console |

### DocumentIndex and the code

*Transactions.* The engines use PostgreSQL's default isolation, READ COMMITTED. A
transaction is a step that reads and a step that commits.
A service request (`execute_with_transaction`) reads its rows in `Begin...` and writes
them in `Commit`; the ORM emits only the attributes whose value changed since they were
read, `version` as a literal, so `Upserted(old, cur)` takes both the row read and the row
found (`index/manager.py:59-62`). When the row read is gone, or the one to be inserted
has appeared, the flush raises and the request rolls back (`FlushFails`).
A conditional UPDATE (the reconciler's claim, the callbacks) evaluates its condition
and takes the row's lock in one step, and the rows change at the commit; `Locked` keeps
every other writer of that row waiting until then.

*History.* `update_version` adds one to the version that was **read**: a request that overlaps a rebuild may write a
version the row has already had. `lost` of `DocumentIndexHistory` marks that commit (`WritesOldVersion`) and
nothing else, and `PendingIsClaimable` and `VersionsOnlyGrow` hold until then, for requests that overlap in any other way too.

*Reconciler.* `Scan` is the three SELECTs of `_get_indexes_needing_reconciliation`
together with the SELECT that yields `target_version`: reading the version later than the
action is the same as scanning later, or the claim fails. `Claim` runs the UPDATEs of all
rows of the document at once; in the code they follow one another, each
holding its lock until the end. `Dispatch` sends one action group, creations before updates before
deletions, **before** `ClaimCommit`, as `_reconcile_single_document` does. `Abort` is any
failure in between: the claim is gone, the messages are not.

*Jobs.* `parses` are `parse_document_task` messages, `jobs` the per-type tasks, both with the
number of retries used. `Validate` is `_validate_task_relevance`; the work is split where
another step can come between: `ReadOldIndex` / `ReplaceIndex` for an update, one step
for creations and deletions; then the callback's UPDATE (`OnIndex...`) and its commit
(`CallbackCommit`). `AttemptFails` may have stored a batch, or deleted the old
ones, before it raised. `docTo` is the status `_update_document_status` computed from the rows as
committed at that moment. When parsing is out of retries, `on_index_failed` is called for every type
of the message: one job per type that only reports the failure.

*Faults* (`FaultKinds`, at most `MaxFaults` of them): `abort` a reconciler's transaction,
`lose` a job (a worker dies, or a callback raises and `BaseIndexTask` swallows it),
`redeliver` a job (acks_late), `error` in an attempt. Losing the job of a type stands for losing
the parse or fan-out message that would have produced it.

*Left out.* Several documents (the pipeline has no state shared between them); the
identity of a row that is deleted and inserted again; deadlock detection of
PostgreSQL (its victim behaves like a request that never began, or a lost callback); the
entries of indexes other than the vector index, which are found by document id.

### CollectionSummary and the code

*Requests.* Creation, update and deletion of a collection commit the collection first
(`CreateCollection`, `UpdateCollection`, `DeleteCollection`); the trigger of the first two runs
afterwards in a session of its own, with the config the request wrote. `ReadTrigger` is its
SELECT and the decision, `Bump`, `Insert` and `Remove` its commit, `EndsInVain` a commit that raises
because the row is gone or already there. `RequestDies` is an API server that stops in between.
The trigger acts on the config its request wrote, although another request may have written a later one: `crossed` of
`CollectionSummaryHistory` holds the collections to which this has happened, or whose request died, since their config was last
written (`ActsOnOldConfig`), and `RowMatchesConfig` is about the others.

*Rounds.* `reconcile_all` works with one session for the whole list. `Scan` reads the list;
`Pick` takes the next row and reads its id and version: from the list, or, when a commit has
expired the session's objects (`get_sync_session` keeps `expire_on_commit`), from the database, and
if the row is gone the handler raises again and the round ends (`PickRaises`). `Claim` is the
UPDATE, which is flushed and not committed: `held` is the set of rows the session has
updated. `Dispatch` sends the message, `CommitClaim` commits **all** that is held. After `DispatchFails` the
claim remains in `held`, for `reconcile_all` catches the exception and goes on without a rollback; the
next commit commits it, the end of the round rolls it back.

*Tasks.* `StartTask` stands for the checks of `generate_collection_summary_task`, `ReadCollection`
for the reads of `on_summary_generated`, `CompleteSummary` for its two conditional
UPDATEs with their commit. The description's UPDATE asks for the `gmt_updated` that was read:
`unchanged` says whether it still is. The function catches every exception, so a generation that
fails ends in `FailSummary` and Celery never retries; `LoseTask` and `RedeliverTask` are the worker's faults.

*Faults* (`FaultKinds`, at most `MaxFaults`): `request` and `round` stop a request or a round between
two steps, `broker` refuses a message, `error` makes a generation fail, `lose` and
`redeliver` a message.

*Left out.* The texts: a description is the user's or the pipeline's. The endpoint
`generate_collection_summary` of the collection service, which passes a response model's config to `json.loads` and
raises before it reaches a row.

### DocumentQuota and the code

*Transactions.* A request is one transaction from `Begin...` to `Commit...`, `Fail` or `Victim`.
`Consume` is `_check_document_quotas`: the quota row is taken FOR UPDATE, the limits of the user and
of the collection are checked, and the row stays locked to the end, which is what makes the check
hold at the commit. `Release` takes the same row. A document that was written is locked
(`docLock`) as PostgreSQL locks it; a read is not. Deletions write their document first and ask for the
quota row afterwards, confirmations the other way round: `Holders`, `Circle` and `Victim` are the
deadlock PostgreSQL finds and breaks, and the victim rolls back.

*Requests.* A creation consumes for every file and inserts only those that are no duplicates
(`CheckDuplicate`); a confirmation consumes for every id and writes those that are still UPLOADED (`Wanted`); a
deletion releases one unit for each document, whatever its status; expiry returns nothing. `BeginRecalculate` counts,
`ReadQuota` and `CommitRecalculate` write the count, without FOR UPDATE.

*What the code does not keep.* Usage can fall below the documents of the collection: a deletion releases for a
document that was only uploaded or is EXPIRED (`document_service.py:669`), two deletions of one document release twice
(:641), and a count may be stale when written (`quota_service.py:206`). The history variable
`slipped` marks the first such step, and `AddedIsCharged` and the refinement say that nothing else does. Usage above
the documents (duplicates, refused ids) is never corrected but by a recalculation; the ledger allows it.

*Left out.* A callback of the index pipeline that writes a status over an EXPIRED document (confirmed
and expired in a race) belongs to `DocumentIndex`. The quotas of collections and bots, and other collections of the user.

### Evaluation and the code

*Scheduler.* `ScheduleNew` and `Coordinate` are `schedule_evaluations`, also started by requests: it sends
`initialize_evaluation_task` for the PENDING ones there are slots for, and for each RUNNING one resets the items
that ran too long (any set of RUNNING items, for time is left out) and sends a batch task.
`InitializeEvaluation` writes RUNNING without a look at the status, as the code does. An evaluation may be scheduled again
before its first message is taken: up to two such messages are kept apart.

*Batch tasks.* `StartBatch` is `RedisLock.acquire` (SET NX EX): the task that finds the key there
gives up. `Expire` removes the key at any moment, also under its holder, so several batch tasks of an
evaluation work at once; `Unlocked` deletes the key if it holds the value of this task. The steps between two
queries are apart: `Count` (status and running items), `Select` (pending items; messages), `Check` (the count of items that
have not ended), `Score` (the count of failed ones) and `Finalize` (the UPDATE of `_finalize_evaluation`, which asks for RUNNING only).

*Item tasks.* `Claim` is the conditional UPDATE, `Finish` what `_process_single_item` writes by the ids alone,
`ItemFails` the exception outside of it. Celery acknowledges late: `WorkerDies` and `BatchFails`
deliver the message again. Up to two messages of one item are kept apart, so an item sent twice, and claimed in
between, is in the model.

*Users.* Pause and resume read, then write by id (`Ask`, `Answer`), so the scheduler or a finalisation
comes in between; a retry locks the evaluation and resets items whatever works on them.

*What the code does not keep.* The coordinator or a retry may take an item from a task that still works, and a retry may meet
a batch task between its counts and its UPDATE: then two tasks write one item, or an evaluation becomes COMPLETED with PENDING
items (`evaluation_service.py:100`, `:340`). `overtaken` is the set of items this has happened to, and `OneRunPerItem` is about the others;
`reopened` is the set of evaluations whose last retry met such a batch task, and `CompletedIsComplete` is about
the evaluations that are not in it and have no item that was taken back. Item limits are exceeded when
two batch tasks overlap (:194), the initialisation undoes a pause (:143), and an evaluation deleted while RUNNING is still counted by the
scheduler and never finalised, so it keeps its slot (:69).

*Left out.* `average_score` and `completed_questions` (no condition reads them; the counter
loses updates and is corrected when the evaluation is finalised), the agent, the judge.

### UploadPage, UploadProgress and the code

Handlers run one at a time in a browser and React's functional updates apply to the current rows,
so a handler, a timer, an answer of the server is one step. What overlaps are **runs**: the asynchronous work
behind one press of a button, which outlives the render, and in `UploadPage` the mount, that started it.

`UploadPage`: a run is an `async.eachLimit` over the files that had no document when Upload was pressed (`waiting`),
with at most `Limit` of them in the simulated delay (`chunking`) or in a request (`sent`). The controller is a variable of the
module: a later run, also of another mount, replaces the one that Stop would have aborted. The picker's `onFilesChange`, its store's `REMOVE_FILE` and
`CLEAR`, its limit and its disabled state are part of `AddFiles`, `RemoveFile` and `Clear`. An answer without a
`document_id` (`UploadIgnored`) leaves the row as it is, "uploading". Leaving the page aborts the controller (`Unmount`), and
`LeavingStopsUploads` says that this stops the runs of every earlier mount until Upload is pressed again.
After Stop the page is ready again when the first task notices, while other requests may still be answered; the properties say
`~stopped` where this matters.

`UploadProgress`: a run takes its queue from the render in which it was asked for (`Ask`, after a timer of 100 ms), and starts
loops that take files from it until it is empty or `uploadAbortRef` is set. Retry stays enabled while a run goes on: then two
runs share the page, and each resets the abort flag and the busy flag of the other. `overlapped` marks it, and most properties hold until then. An answer
ends a request in one of three ways (`RequestEnds`): success, with or without a `documentId`; failed; and, when `open`, `setRequestHeader` or
`send` raises, a rejected promise with the task still "uploading" (`SendRaises`), after which the loop goes on.

## 4. Runs

Bounds: `MaxVersion` stops rebuilds at that version; 2 suffices for one rebuild of a
created index to overlap with all that the creation left behind, 3 (`index_progress`) lets an
update overlap with a later one, and a rebuild come between a reconciler's SELECT and its claim of an update. In `index_history`, 2 lets
one of two requests overwrite the other's version and leave the row PENDING and observed; a version that is really lower takes 3, which the theorem
covers (TLC has also run through that instance, 4 million states, once). `Ids` and `Batches` are large enough (6) never to run out. `MaxRetries` is
3 in the code; 1 distinguishes "will be retried" from "was the last retry" (`index_safety`), 0 makes one error end in FAILED so that `rebuild_failed` follows (`index_progress`, `index_history`). `MaxFaults` = 1: every kind of
fault at every point, one per behaviour.
The types of a document share its status and its requests; one type is enough for every race named here but that of two callbacks over the status (section 4, end), and the
theorems hold for any number of them.

| Run | Instance | Shows |
|---|---|---|
| `index_safety` | one type, one request at a time, two reconcilers, all faults | type invariant; a deletion is final and its indexes stay condemned; the inductive invariant; versions of jobs; refinement of `IndexLifecycle` |
| `index_history` | one type, two overlapping requests of every kind, errors | until a version is overwritten, waiting rows are claimable and versions grow |
| `index_progress` | one type, one request at a time up to version 3, two reconcilers, an attempt that fails, fairness | one job for the current version; every request, `rebuild_failed` included, is taken up |
| `index_overlap` | two requests at a time: upload, confirm, delete, expiry | row locks and the unique constraint hold against overlapping requests |
| `summary_safety` | one collection, two overlapping rounds, every kind of fault | type invariant; the inductive invariant; refinement of `SummaryLifecycle` |
| `summary_round` | two overlapping requests, two collections in one session, a broker that may fail | a claim left behind by a failed dispatch stays claimable until it is committed or rolled back; descriptions are written only with the completion of the current version |
| `summary_progress` | two overlapping requests, two overlapping rounds, a broker or a generation may fail or a request die, fairness | one task per summary; the row follows the config unless a request acted on a replaced one or died; new and failed summaries are taken up |

For summaries `MaxUpdates` = 2 (1 in `summary_round`) lets an update overlap with the generation that another one asked for; three
`Ids` let a row be dropped and created again while work for the old one is around; two or
three `Messages` bound the tasks in flight, and a round waits when there is none left. `CHECK_DEADLOCK FALSE`: the system
may stop when every collection is deleted and every job is done.

For `quota`, two documents of one name and two overlapping requests are enough for every race named above: each
is between two transactions over one document, or over the quota row. A limit of the user that is set
to 1 or 2 makes its check refuse; the limit of the collection, 2, is not reached in the run, which has two documents, and is left to the theorem `Implements`. For `evaluation`, one evaluation with one item: the races are between two tasks of the same evaluation, or of
the same item; `MaxAsked` bounds pauses, retries and the deletion (a resumption, of which a pause allows one, is not counted), `MaxFaults` exceptions and
dead workers. Several items are covered by the theorems. For the upload pages three files with two at a time let a task
finish, fail and start another while one is on its way; two runs and two mounts let
any two overlap.

`CHECK_DEADLOCK FALSE`, here and in `quota`, `evaluation` and the upload runs, because a deleted evaluation, a collection whose
documents are all gone and a page whose files are all uploaded are at rest.

| Run | Instance | Shows |
|---|---|---|
| `quota` | two documents, two requests, failures, deadlocks, fairness | documents stay charged until something slips; the transactions implement `QuotaLedger`; every request ends |
| `evaluation` | one item, two batch tasks, two item tasks, a fault, a request, fairness | one task per item until it is taken back; COMPLETED is complete unless a retry came in between; no evaluation runs forever |
| `upload_page` | three files, two runs, two mounts, fairness | busy while sending; no file sent twice; a stuck row takes a Stop; once the page is left its runs start nothing; uploads end |
| `upload_progress` | three files, two loops, two runs, fairness | the page follows its run; one loop per file; the concurrency; success is kept; every file is tried |

One run shows a divergence between the code and its documentation (`findings`): `find_active`. "ACTIVE: Index is
up-to-date and ready for use", but a late or redelivered update job deletes the vectors an ACTIVE row names.

The models reach further states that a reader of the code may not expect and that no run singles out. Of
the index pipeline: a row stays CREATING without any fault, because its message overtook the commit of the claim
(`reconciler.py:135-136`), or because a rebuild moved the version under the claim (`index/manager.py:61`); the failure of a job for an
old version marks the claim of a new one FAILED (`on_index_failed` takes no version, `reconciler.py:383`); an old version is dispatched
twice, for a message carries the version of the SELECT (`reconciler.py:205`) and the claim only asks for one above 1: when a rebuild comes in
between, a reconciler claims the new version and sends the old one again, which the relevance check skips, and the row stays CREATING; a creation that overlaps the
deletion leaves vectors no row names; two callbacks that overlap leave the document RUNNING with all indexes
ACTIVE; of two overlapping rebuilds the later writes a version that was already built. Of summaries: a COMPLETE one is
selected at every beat and generated again (`reconciler.py:467-472`); a description a user wrote during the callback is
overwritten, for `update_collection_by_id` does not touch `gmt_updated` (`reconciler.py:619`); a summary whose task overtook the commit of
its claim stays GENERATING; of two overlapping requests the older config can decide whether a row exists.

## 5. Fairness

`FairSpec` assumes weak fairness of: the end of a request that has begun; each step of the
reconciler (Celery beat runs it every hour and each request triggers it, `config/celery_app.py:46-50`);
each message that can be processed (workers keep consuming). It assumes nothing about clients
beginning requests, nor about faults. `FairSpec` of `CollectionSummary` assumes the same of
requests, of the rounds (every 60 s, `config/celery_app.py:51-54`) and of
summary tasks. Weak fairness is enough there: none of these
steps is disabled for ever by another one.

`DocumentQuota` assumes strong fairness of a transaction that waits for a row, since PostgreSQL grants row locks in the
order they were asked for and breaks deadlocks. `Evaluation` assumes that the beat starts the coordinator for
RUNNING evaluations (every 300 s, `config/celery_app.py:59-62`) and finds at last an item that stays RUNNING (after
`EVALUATION_ITEM_PROCESSING_TASK_TIMEOUT_MINUTES`), that keys expire, that tasks go on (the agent's answer has a timeout), and that
a message of an evaluation or item that waits is at last taken by an idle worker: queues are served in order. Weak fairness is enough: the
beat repeats what is needed, and nobody takes a waiting message's worker away for ever. In the browser, timers
fire and requests are answered or time out as long as the tab lives; users are never assumed to do anything.

## 6. Proofs

`DocumentIndexProofs`, for every set of types, requests and reconcilers and every bound:

* `TypeCorrect` and `HeldRowsAreKept`, without further assumptions. A claim or callback
  writes its row at commit, so even types depend on the row still being there: the invariant
  is `LockInv`, in which `LocksExclude` says no two open transactions hold one row and
  `HeldRowsKeep` that the condition a row was taken under is still true.
* Under `SingleClient` (requests do not overlap) and `NoExpiry`: `Invariance` of `IndInv`, which
  adds to `LockInv` that a request's reads are current (`SeenIsCurrent`), that rows are missing only where no
  work for them exists (`WorkHasRow`), that messages carry versions of the past (`WorkIsOfThePast`), and who may still
  write the document's status (`DocWritersAgree`). From it follow
  `DeletedStaysCondemned`, `JobsAreAlwaysOfThePast`, `DeletedIsAlwaysFinal` and `Refinement`.
* `WaitingRowsAreClaimable` and `VersionsAlwaysGrow` are about `HSpec` of `DocumentIndexHistory` and have no further assumptions: requests
  overlap as they like. `HistoryInv` adds to `LockInv` that, until a version is overwritten, no row has observed more than was requested
  and every PENDING row is claimable. The commit of a request is the step that needs care: it writes over the row
  found, a version computed from the row read, and `~lost'` is what orders the two.
* `IndexDataIsKept`, without further assumptions again: of all the commits, only that of a successful job
  and the end of a row touch `index_data`. `LockInv` is what it needs: a request's flush writes over the row as it is, not as it was read.

The two assumptions are needed: of two overlapping rebuilds the later writes a version already built, a step `IndexLifecycle` does not
have, a rebuild that overlaps the deletion revives an index, and expiry writes over any status.

`DocumentIndexJobs` proves `JobsAreAlone`, under these assumptions and `NoRepetition` (no `abort`, no `redeliver`; `error` and
`lose` may happen). `JobInvariant` adds to `IndInv` that work which still matters is *one* message, a parse message or a job
(`SentOnce`), and that its row can be claimed again only while the claim that sent it is open (`SentIsHanded`): the message is sent
before the commit, and until then the row shows the old status, but `LocksExclude` keeps everyone else off it. `NoRepetition` is needed,
for a round that dies after sending leaves a claimable row and a message. The property is about versions that matter: "no version is dispatched
twice" is false, as the proof attempt and then the run at `MaxVersion` = 3 showed (section 4).

`CollectionSummaryProofs`, for every set of collections, requests, rounds and messages, overlapping
as they like, and every bound: `Invariance` of `IndInv`, which holds the types, `HeldStaysClaimable` (what a
session has updated and not committed), `RoundsAgree` (a round takes each row of its list once, so the row it
claims is not one it still holds) and `RequestsAgree`. `TypeCorrect` and `HeldRowsAreKept` follow from it; the
types alone are not inductive, since `CommitClaim` writes rows that must still be there. `DescriptionsFollowSummaries` holds as
generally. `Refinement` (of `SummaryLifecycle`, step by step) needs `SingleClient`: of two overlapping triggers the later
writes the version after the one it read, which the row may have left behind, and the lifecycle allows no such step.

`CollectionSummaryTasks` proves two more theorems:

* `TasksAreAlone`, if no round dies and no message is redelivered (`NoRepetition`: each of these faults gives a summary a second task),
  whichever requests and rounds overlap. The invariant `WorkInv` says that a task of a row that is there has it claimed, or is about to
  (`CurrentIsClaimed`), and, since ids are used again when nothing names them, that an id never names two collections (`IdsApart`). Versions play no
  part: a request renews the version of a row and leaves it GENERATING.
* `RowsMatchConfig`, about `HSpec` of `CollectionSummaryHistory` and without further assumptions. `ConfigInv` says that for a collection not `crossed` either the row agrees with
  the config or one of the open requests is about to make it agree (`Serves`): the request that wrote the config last has not ended, and an older one
  that undid its work would have crossed it.

`DocumentQuotaProofs`, for every set of documents, names, overlapping requests and limits: `Invariance` of `IndInv`, which adds to
the types and `AddedIsCharged` that a request which has passed its check holds the quota row and that what it was granted still fits (`GrantHolds`),
and that it writes no more than it has paid for. `Charged` and `Implements` (the refinement of `QuotaLedger`, step by step) follow.

`EvaluationProofs`, for every set of evaluations, items and tasks: `Invariance` of `IndInv`, in which `WritesHold` says that, for
an evaluation that is `Untouched`, all items a batch task counted have stayed ended, whoever else holds the lock: no step but a retry changes an
item that ended, and a claim, a coordinator and a run only touch items that did not. The exception is a part of the properties: `OneRun` and `Complete` say what holds
in spite of expired locks, repeated messages and pauses, and not that a retry is safe at any moment. So mutual exclusion of the lock is not needed for
`OneRun` and `Complete`, and a lock that expires does no harm to them.

`UploadPageProofs` and `UploadProgressProofs`, for every set of files, number of runs and limit: `Invariance` of `IndInv`, in which `RunsAgree` and
`PageAgrees` relate what the runs still hold to what the page shows; each safety property of the two runs follows
(`BusyIsShown`, `OneSender`, `StuckOnlyByStop`, `LeavingIsObeyed`; `FlagFollowsRuns`, `OneLoop`, `Bounded`, `SuccessStays`).

Only model-checked: liveness (`RequestsAreTakenUp`, `WaitingIsTakenUp`, `RequestsEnd`, `RunningEnds`, `UploadingEnds`,
`EveryFileIsTried`), which needs fairness and ENABLED. Every invariant and action property of the passing runs is proved,
some of them under the hypotheses above. `SingleClient` is the strong one, and it is needed: with two clients, in instances
like those of `index_overlap` and `summary_safety` (rebuilds up to version 3, three updates), TLC finds a counterexample of each property proved under it. When requests on one
document or collection overlap, what remains is `TypeCorrect`, `HeldRowsAreKept`, `IndexDataIsKept`, `WaitingRowsAreClaimable`, `VersionsAlwaysGrow`,
`DescriptionsFollowSummaries`, `TasksAreAlone` and `RowsMatchConfig` of summaries and their `Invariance`, three of them until the
history variable says otherwise.

## 7. Not modelled

Every part is listed under `components` in `PROJECT.json` with its state. Left out so far, though they have state worth
modelling: the flow engine, agent sessions, the marketplace, the initialisation and deletion of collections, the
registry of in-process locks. Hazards of theirs that were met: a node of a parallel group fails while its siblings go on
(`flow/engine.py:256`); two calls for one chat both initialise a session (`agent_session_manager.py:171`), and the clean-up pops a session after an
await (:189); two overlapping subscriptions are both inserted, for the unique constraint contains the NULL
`gmt_deleted` (`db/models.py:302`); `initialize_collection` undoes a deletion (`tasks/collection.py:71`); `RedisLock.acquire` returns TRUE to a second
task that shares the object (`redis_lock.py:132`; the batch tasks never share one).

Not meant to be modelled: text processing, LLM calls, row-at-a-time CRUD, adapters to external services, and the
other pages of the two clients, which show what the server answers. The clients are the larger part of the repository's TypeScript
(about 97,000 lines, half of them generated API clients with no state): `DocumentQuota`, `DocumentIndex`, `CollectionSummary` and `Evaluation` model the
server, which is Python, and the upload pages are the client code in which asynchronous work overlaps. So the modules
stand for a small share of all lines, and for most of those in which several actors work on one state.
