--------------------------- MODULE UploadProgress ---------------------------
(***************************************************************************)
(* The upload pages of the console (pages/collections/$collectionId/       *)
(* documents/upload): index.tsx, where files are selected, and             *)
(* progress.tsx, which uploads them on its own.  A run takes a queue from  *)
(* the tasks of the render in which it was asked for, and works it off     *)
(* with a few loops that look at uploadAbortRef between two files.  Retry  *)
(* asks for a new run, also while one is going on.                         *)
(***************************************************************************)
EXTENDS Integers, FiniteSets

CONSTANTS
    Files,
    Concurrency,  \* loops of a run at most, 3 in the code
    MaxRuns       \* bound: number of runs asked for

ASSUME ConstantsAssumption ==
    IsFiniteSet(Files) /\ Concurrency \in Nat \ {0} /\ MaxRuns \in Nat \ {0}

VARIABLES
    tasks,         \* state.tasks, by file
    isUploading,
    isConfirming,
    abort,         \* uploadAbortRef
    place,         \* the page that is shown
    overlapped,    \* history: a run was asked for while another one went on
    asked,         \* number of runs asked for
    stage,         \* of each run: its timer, its loops, its end
    queue,         \* files of a run that no loop has taken
    loops,         \* loops of a run that have not returned
    sending        \* files of a run whose request is not answered

runVars == <<asked, stage, queue, loops, sending>>
vars == <<tasks, isUploading, isConfirming, abort, place, overlapped,
          asked, stage, queue, loops, sending>>

Runs == 1..MaxRuns
Status == {"unselected", "pending", "uploading", "success", "failed"}
Task == [status: Status, doc: BOOLEAN]
TaskOf(s, d) == [status |-> s, doc |-> d]

Having(s) == {f \in Files : tasks[f].status = s}
Shown == place = "progress"
Going(r) == stage[r] \in {"timer", "running"}

\* A run is asked for: a timer of 100 ms with the queue of that render.
Ask(files) ==
    /\ asked < MaxRuns /\ asked' = asked + 1
    /\ stage' = [stage EXCEPT ![asked + 1] = "timer"]
    /\ queue' = [queue EXCEPT ![asked + 1] = files]
    /\ UNCHANGED <<loops, sending>>

-----------------------------------------------------------------------------
(* What the user does                                                      *)

\* handleStartUpload of the selection page; the progress page mounts, makes a
\* task of every file and starts by itself.
Select(files) ==
    /\ place = "select" /\ files # {}
    /\ place' = "progress"
    /\ tasks' = [f \in Files |->
                   TaskOf(IF f \in files THEN "pending" ELSE "unselected", FALSE)]
    /\ Ask(files)
    /\ UNCHANGED <<isUploading, isConfirming, abort, overlapped>>

StopUpload ==
    /\ Shown /\ isUploading
    /\ abort' = TRUE
    /\ UNCHANGED <<tasks, isUploading, isConfirming, place, overlapped, runVars>>

\* Tasks become pending, and the closure of this render starts: its queue is
\* what was pending or failed when the button was pressed.
Retry(files) ==
    /\ Shown /\ Having("failed") # {}
    /\ tasks' = [f \in Files |-> IF f \in files THEN TaskOf("pending", tasks[f].doc)
                                 ELSE tasks[f]]
    /\ Ask(Having("failed") \cup Having("pending"))
    /\ overlapped' = (overlapped \/ \E r \in Runs : Going(r))
    /\ UNCHANGED <<isUploading, isConfirming, abort, place>>

\* A bug: every task that is not on its way is reset.
RetryAll == Retry(Having("failed") \cup Having("success"))

RetryFailed == Retry(Having("failed"))

\* The button is disabled by isConfirming and without a success.
Confirm ==
    /\ Shown /\ ~isConfirming
    /\ \E f \in Having("success") : tasks[f].doc
    /\ isConfirming' = TRUE
    /\ UNCHANGED <<tasks, isUploading, abort, place, overlapped, runVars>>

\* Leaving the page neither stops the loops nor sets the abort flag.
Leave ==
    /\ Shown /\ place' = "left"
    /\ UNCHANGED <<tasks, isUploading, isConfirming, abort, overlapped, runVars>>

-----------------------------------------------------------------------------
(* What happens by itself                                                  *)

ConfirmSucceeds ==
    /\ isConfirming /\ isConfirming' = FALSE /\ place' = "left"
    /\ UNCHANGED <<tasks, isUploading, abort, overlapped, runVars>>

ConfirmFails ==
    /\ isConfirming /\ isConfirming' = FALSE
    /\ UNCHANGED <<tasks, isUploading, abort, place, overlapped, runVars>>

\* Math.min(concurrency, uploadQueue.length) is evaluated again for each
\* loop, and each loop has by then taken its first file from the queue.
\* A bug: a loop for every file.
StartedAll(n) == n

Started(n) == CHOOSE k \in 0..Concurrency :
    /\ \A i \in 0..(k - 1) : 2 * i < n
    /\ k = Concurrency \/ 2 * k >= n

\* setState does nothing once the page is no longer mounted.
StartUpload(r) ==
    /\ stage[r] = "timer"
    /\ abort' = FALSE
    /\ \E first \in SUBSET queue[r] :
         /\ Cardinality(first) = Started(Cardinality(queue[r]))
         /\ queue' = [queue EXCEPT ![r] = queue[r] \ first]
         /\ sending' = [sending EXCEPT ![r] = first]
         /\ loops' = [loops EXCEPT ![r] = Cardinality(first)]
         /\ tasks' = IF Shown
                     THEN [f \in Files |-> IF f \in first
                             THEN TaskOf("uploading", tasks[f].doc) ELSE tasks[f]]
                     ELSE tasks
    /\ stage' = [stage EXCEPT ![r] = "running"]
    /\ isUploading' = (isUploading \/ Shown)
    /\ UNCHANGED <<isConfirming, place, overlapped, asked>>

\* After a file, uploadNext takes the next one, or returns because of the
\* abort flag or the empty queue; the last loop to return ends the run.
Takes(r, f, t, g) ==
    /\ sending' = [sending EXCEPT ![r] = (sending[r] \ {f}) \cup {g}]
    /\ tasks' = IF Shown
                THEN [tasks EXCEPT ![f] = t, ![g] = TaskOf("uploading", tasks[g].doc)]
                ELSE tasks
    /\ UNCHANGED <<isUploading, stage, loops>>

\* A bug: the loop looks at the head of the queue and leaves it there.
TakeUnshifted(r, f, t) == ~abort /\ \E g \in queue[r] :
    Takes(r, f, t, g) /\ UNCHANGED queue

TakeNext(r, f, t) == ~abort /\ \E g \in queue[r] :
    Takes(r, f, t, g) /\ queue' = [queue EXCEPT ![r] = queue[r] \ {g}]

\* A loop returns, and with it the run if over.
Returns(r, f, t, last) ==
    /\ sending' = [sending EXCEPT ![r] = sending[r] \ {f}]
    /\ loops' = [loops EXCEPT ![r] = loops[r] - 1]
    /\ tasks' = IF Shown THEN [tasks EXCEPT ![f] = t] ELSE tasks
    /\ stage' = [stage EXCEPT ![r] = IF loops[r] = 1 THEN "over" ELSE "running"]
    /\ isUploading' = (isUploading /\ ~(last /\ Shown))
    /\ UNCHANGED queue

\* A bug: the flag is reset by the first loop that returns.
ReturnFirst(r, f, t) == (queue[r] = {} \/ abort) /\ Returns(r, f, t, TRUE)

\* A bug: a failure ends the loop, for uploadNext is not called after it.
ReturnOnFailure(r, f, t) ==
    /\ queue[r] = {} \/ abort \/ t.status = "failed"
    /\ Returns(r, f, t, loops[r] = 1)

Return(r, f, t) == (queue[r] = {} \/ abort) /\ Returns(r, f, t, loops[r] = 1)

Answered(r, f, t) ==
    /\ f \in sending[r]
    /\ TakeNext(r, f, t) \/ Return(r, f, t)
    /\ UNCHANGED <<isConfirming, abort, place, overlapped, asked>>

\* A bug: the status the server answers is kept.
UploadAnswers(r, f, d) == Answered(r, f, TaskOf("UPLOADED", d))

\* d: the answer has a document_id.  Without one the task says success all
\* the same, and forgets the id it may have had.
UploadSucceeds(r, f, d) == Answered(r, f, TaskOf("success", d))

\* Another status, a network error, an answer that cannot be parsed, or an
\* exception before the request is made.
UploadFails(r, f) == Answered(r, f, TaskOf("failed", tasks[f].doc))

\* open, setRequestHeader or send raises: the promise is rejected, the loop
\* goes on, and the task still says "uploading".
SendRaises(r, f) == Answered(r, f, TaskOf("uploading", tasks[f].doc))

RequestEnds(r, f) ==
    \/ \E d \in BOOLEAN : UploadSucceeds(r, f, d)
    \/ UploadFails(r, f) \/ SendRaises(r, f)

-----------------------------------------------------------------------------
Init ==
    /\ tasks = [f \in Files |-> TaskOf("unselected", FALSE)]
    /\ isUploading = FALSE /\ isConfirming = FALSE /\ abort = FALSE
    /\ place = "select" /\ overlapped = FALSE /\ asked = 0
    /\ stage = [r \in Runs |-> "none"]
    /\ queue = [r \in Runs |-> {}]
    /\ loops = [r \in Runs |-> 0]
    /\ sending = [r \in Runs |-> {}]

UserStep ==
    \/ \E files \in SUBSET Files : Select(files)
    \/ StopUpload \/ RetryFailed \/ Confirm \/ Leave

RunStep(r) ==
    \/ StartUpload(r)
    \/ \E f \in Files : RequestEnds(r, f)

Next == UserStep \/ ConfirmSucceeds \/ ConfirmFails \/ \E r \in Runs : RunStep(r)

Spec == Init /\ [][Next]_vars

\* Timers fire; the browser ends every request with load or error.
Fairness == \A r \in Runs :
    /\ WF_vars(StartUpload(r))
    /\ \A f \in Files : WF_vars(RequestEnds(r, f))

FairSpec == Spec /\ Fairness

-----------------------------------------------------------------------------
TypeOK ==
    /\ tasks \in [Files -> Task]
    /\ isUploading \in BOOLEAN /\ isConfirming \in BOOLEAN
    /\ abort \in BOOLEAN /\ overlapped \in BOOLEAN
    /\ place \in {"select", "progress", "left"}
    /\ asked \in 0..MaxRuns
    /\ stage \in [Runs -> {"none", "timer", "running", "over"}]
    /\ queue \in [Runs -> SUBSET Files]
    /\ loops \in [Runs -> Nat]
    /\ sending \in [Runs -> SUBSET Files]

\* The page says that it is uploading exactly while a run goes on, so that
\* Stop is offered: unless Retry asked for a run while another one went on,
\* for then the first of the two to end resets the flag (progress.tsx:146).
BusyWhileRunning ==
    Shown /\ ~overlapped => (isUploading <=> \E r \in Runs : stage[r] = "running")

\* A file is on the way or in a queue once, or the server is asked twice for
\* it; a Retry during an upload breaks this, for its queue holds the pending
\* files of the queue that is being worked off.
OneLoopPerFile ==
    ~overlapped => \A r, s \in Runs : \A f \in Files :
        /\ stage[r] # "over" /\ stage[s] # "over"
        /\ f \in queue[r] \cup sending[r] /\ f \in queue[s] \cup sending[s]
        => r = s /\ f \notin queue[r] \cap sending[r]

\* At most Concurrency files are sent at a time ("concurrency limited to 3",
\* progress.tsx:109-110), one by each loop, unless two runs overlap.
WithinConcurrency ==
    /\ \A r \in Runs : Cardinality(sending[r]) = loops[r]
    /\ ~overlapped => Cardinality(UNION {sending[r] : r \in Runs}) <= Concurrency

\* What the runs hold: one loop for each file that is on its way.
RunsAgree == \A r \in Runs :
    /\ stage[r] = "none" <=> r > asked
    /\ stage[r] = "none" => queue[r] = {}
    /\ stage[r] = "timer" => queue[r] # {}
    /\ stage[r] = "running" <=> sending[r] # {}
    /\ queue[r] \cap sending[r] = {}
    /\ Cardinality(sending[r]) = loops[r] /\ loops[r] <= Concurrency

\* What the page shows of the one run that is going on, and what that run
\* has still to do.
PageAgrees ==
    /\ place = "select" => asked = 0 /\ ~isUploading
    /\ ~overlapped =>
         /\ \A r, s \in Runs : Going(r) /\ Going(s) => r = s
         /\ Shown => (isUploading <=> \E r \in Runs : stage[r] = "running")
         /\ Shown => \A r \in Runs : Going(r) =>
              \A f \in queue[r] \cup sending[r] : tasks[f].status # "success"

\* The inductive invariant of UploadProgressProofs: until two runs overlap,
\* the page and its run agree, and what the run holds is not uploaded yet.
IndInv == TypeOK /\ RunsAgree /\ PageAgrees

KeepsSuccess == Having("success") \subseteq Having("success")'

\* A file the user could confirm stays confirmable: only overlapping runs
\* send an uploaded file once more and may end with it as failed.
SuccessIsKept ==
    [][Shown /\ ~overlapped' => KeepsSuccess]_vars

\* Every selected file is tried in the end, although the loops end one by
\* one, unless the user stops the upload, leaves, or lets runs overlap (one
\* run resets the abort flag that has already ended the loops of another).
EveryFileIsTried ==
    \A f \in Files : tasks[f].status = "pending"
        ~> tasks[f].status # "pending" \/ abort \/ ~Shown \/ overlapped

=============================================================================
