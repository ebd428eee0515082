----------------------------- MODULE UploadPage -----------------------------
(***************************************************************************)
(* The page of the web application that uploads files to a collection      *)
(* (document-upload.tsx) with the file picker it contains                  *)
(* (components/ui/file-upload.tsx).  Pressing Upload starts a run: an      *)
(* async.eachLimit over the files that have no document yet, at most Limit *)
(* at a time.  Pressing Stop, or leaving the page, aborts a controller that *)
(* is a variable of the module, shared by all runs of all mounts of the    *)
(* page; a run looks at it only when it is about to start another file.    *)
(*                                                                         *)
(* A file is a File object: picking the same file again is another object. *)
(* React state is updated by functions, so each handler is one step.       *)
(***************************************************************************)
EXTENDS Integers, FiniteSets

CONSTANTS
    Files,       \* File objects the user may pick
    Limit,       \* files a run sends at a time, 3 in the code
    MaxFiles,    \* rows the picker accepts, 1000 in the code
    MaxRuns,     \* bound: number of times Upload is pressed
    MaxPages     \* bound: number of times the page is mounted

ASSUME ConstantsAssumption ==
    /\ Limit \in Nat \ {0}
    /\ MaxFiles \in Nat /\ MaxRuns \in Nat
    /\ MaxPages \in Nat \ {0}

VARIABLES
    rows,         \* the documents of the page, by file
    isUploading,
    page,         \* number of the mount
    stopped,      \* history: Stop was pressed on this mount
    saves,        \* calls of handleSaveToCollection not yet answered
    controller,   \* uploadController, shared by all mounts
    started,      \* number of runs so far
    pageOf,       \* the mount a run belongs to
    waiting,      \* files a run has not started yet
    chunking,     \* files in the simulated delay before their request
    sent,         \* files whose request is not yet answered
    over          \* the final callback of a run has been called

pageVars == <<rows, isUploading, page, stopped, saves>>
runVars == <<started, pageOf, waiting, chunking, sent, over>>
vars == <<rows, isUploading, page, stopped, saves, controller,
          started, pageOf, waiting, chunking, sent, over>>

Runs == 1..MaxRuns
Pages == 1..MaxPages

\* doc says that the row has a document_id.  A row that was removed is not
\* picked again: a file picked again is another File.
Status == {"unpicked", "pending", "uploading", "success", "failed", "removed"}
Row == [status: Status, doc: BOOLEAN]
\* A bug: the page copies the status of the picker's own store.
PickerRow(s, d) == [status |-> IF s = "pending" THEN "idle" ELSE s, doc |-> d]

RowOf(s, d) == [status |-> s, doc |-> d]

Listed == {f \in Files : rows[f].status \notin {"unpicked", "removed"}}
\* A bug: files that have their document are not filtered out.
Everything == {f \in Listed : TRUE}

Unsaved == {f \in Listed : ~rows[f].doc}
Active(r) == chunking[r] \cup sent[r]

\* The step the page shows, which decides the buttons that are offered.
Step == IF Listed = {} THEN 1
        ELSE IF \A f \in Listed : rows[f].status = "success" THEN 3 ELSE 2

-----------------------------------------------------------------------------
(* What the user does                                                      *)

\* Files picked or dropped.  Those that are rejected, or for which there is
\* no room, leave no trace; rows that are there stay as they are.
AddFiles ==
    /\ ~isUploading
    /\ \E new \in SUBSET {f \in Files : rows[f].status = "unpicked"} :
         /\ new # {}
         /\ Cardinality(Listed) + Cardinality(new) <= MaxFiles
         /\ rows' = [f \in Files |-> IF f \in new THEN RowOf("pending", FALSE)
                                     ELSE rows[f]]
    /\ UNCHANGED <<isUploading, page, stopped, saves, controller, runVars>>

\* Offered for every row, also during an upload.
RemoveFile(f) ==
    /\ f \in Listed
    /\ rows' = [rows EXCEPT ![f] = RowOf("removed", FALSE)]
    /\ UNCHANGED <<isUploading, page, stopped, saves, controller, runVars>>

Cleared == [f \in Files |-> IF f \in Listed THEN RowOf("removed", FALSE)
                            ELSE rows[f]]

Clear ==
    /\ ~isUploading /\ Listed # {}
    /\ rows' = Cleared
    /\ UNCHANGED <<isUploading, page, stopped, saves, controller, runVars>>

\* The run that is started: its first tasks, and those that wait.
Begin(first) ==
    /\ started < MaxRuns /\ started' = started + 1
    /\ controller' = "live"
    /\ chunking' = [chunking EXCEPT ![started + 1] = first]
    /\ waiting' = [waiting EXCEPT ![started + 1] = Unsaved \ first]
    /\ pageOf' = [pageOf EXCEPT ![started + 1] = page]
    /\ over' = [over EXCEPT ![started + 1] = (Unsaved = {})]
    /\ isUploading' = (Unsaved # {})
    /\ UNCHANGED <<rows, page, stopped, saves, sent>>

First == {t \in SUBSET Unsaved : Cardinality(t) <= Limit
                                 /\ (Cardinality(t) = Limit \/ t = Unsaved)}

\* A bug: the button does not turn into Stop.
StartAnyTime == Step = 2 /\ \E t \in First : Begin(t)

StartUpload == Step = 2 /\ ~isUploading /\ \E t \in First : Begin(t)

StopUpload ==
    /\ Step = 2 /\ isUploading
    /\ controller' = "aborted" /\ stopped' = TRUE
    /\ UNCHANGED <<rows, isUploading, page, saves, runVars>>

\* handleSaveToCollection has no guard of its own: it can be called again.
Save ==
    /\ Step = 3
    /\ saves' = saves \cup {[page |-> page, files |-> Listed]}
    /\ UNCHANGED <<rows, isUploading, page, stopped, controller, runVars>>

\* A bug: the effect has no cleanup, and the upload goes on.
UnmountQuietly ==
    /\ page < MaxPages /\ page' = page + 1
    /\ rows' = Cleared
    /\ isUploading' = FALSE /\ stopped' = FALSE
    /\ UNCHANGED <<controller, runVars>>

\* The page is left, and perhaps opened again: a mount with a state of its
\* own.  Unmounting aborts the controller of the module.
Unmount ==
    /\ page < MaxPages /\ page' = page + 1
    /\ rows' = Cleared
    /\ isUploading' = FALSE /\ stopped' = FALSE
    /\ controller' = IF controller = "none" THEN "none" ELSE "aborted"
    /\ UNCHANGED runVars

Leave == Unmount /\ UNCHANGED saves

-----------------------------------------------------------------------------
(* What happens to calls                                                   *)

\* The confirmation succeeds, and the router leaves whatever page is shown.
SaveSucceeds(s) == s \in saves /\ saves' = saves \ {s} /\ Unmount

SaveFails(s) ==
    /\ s \in saves /\ saves' = saves \ {s}
    /\ UNCHANGED <<rows, isUploading, page, stopped, controller, runVars>>

\* setDocuments of a run: without effect after an unmount or a removal.
Mark(r, f, s, d) ==
    rows' = IF pageOf[r] = page /\ f \in Listed
            THEN [rows EXCEPT ![f] = RowOf(s, d)] ELSE rows

\* One of the chunks before the request; the last one is part of Send.
Chunk(r, f) ==
    /\ f \in chunking[r]
    /\ Mark(r, f, "uploading", rows[f].doc)
    /\ UNCHANGED <<isUploading, page, stopped, saves, controller, runVars>>

Send(r, f) ==
    /\ f \in chunking[r]
    /\ chunking' = [chunking EXCEPT ![r] = chunking[r] \ {f}]
    /\ sent' = [sent EXCEPT ![r] = sent[r] \cup {f}]
    /\ Mark(r, f, "uploading", rows[f].doc)
    /\ UNCHANGED <<isUploading, page, stopped, saves, controller, started,
                   pageOf, waiting, over>>

\* setIsUploading(false) by a run: the setter belongs to its own mount.
Finish(r) ==
    /\ over' = [over EXCEPT ![r] = TRUE]
    /\ isUploading' = (isUploading /\ pageOf[r] # page)
    /\ UNCHANGED <<waiting, chunking>>

\* The callback of a task: async.eachLimit starts the next one, unless its
\* iteratee finds the controller aborted, or calls the final callback.
Begins(r, f) ==
    /\ waiting' = [waiting EXCEPT ![r] = waiting[r] \ {f}]
    /\ chunking' = [chunking EXCEPT ![r] = chunking[r] \cup {f}]
    /\ UNCHANGED <<over, isUploading>>

StartsNext(r) ==
    ~over[r] /\ controller # "aborted" /\ \E f \in waiting[r] : Begins(r, f)

\* A bug: the iteratee returns without calling its callback.
AbortsSilently(r) ==
    /\ ~over[r] /\ waiting[r] # {} /\ controller = "aborted"
    /\ UNCHANGED <<waiting, chunking, over, isUploading>>

NoticesAbort(r) ==
    ~over[r] /\ waiting[r] # {} /\ controller = "aborted" /\ Finish(r)

\* A bug: the end of the list is taken for the end of the tasks.
CompletesEarly(r) == ~over[r] /\ waiting[r] = {} /\ Finish(r)

Completes(r) ==
    ~over[r] /\ waiting[r] = {} /\ chunking[r] \cup sent'[r] = {} /\ Finish(r)

GoesOn(r) ==
    /\ over[r] \/ (waiting[r] = {} /\ chunking[r] \cup sent'[r] # {})
    /\ UNCHANGED <<waiting, chunking, over, isUploading>>

Callback(r, f) ==
    /\ f \in sent[r]
    /\ sent' = [sent EXCEPT ![r] = sent[r] \ {f}]
    /\ StartsNext(r) \/ NoticesAbort(r) \/ Completes(r) \/ GoesOn(r)
    /\ UNCHANGED <<page, stopped, saves, controller, started, pageOf>>

UploadSucceeds(r, f) == Mark(r, f, "success", TRUE) /\ Callback(r, f)

\* An answer without a document_id: the row goes on saying "uploading".
UploadIgnored(r, f) == UNCHANGED rows /\ Callback(r, f)

\* An error or the timeout of 30 s; a document_id the row has is kept.
UploadFails(r, f) == Mark(r, f, "failed", rows[f].doc) /\ Callback(r, f)

-----------------------------------------------------------------------------
Init ==
    /\ rows = [f \in Files |-> RowOf("unpicked", FALSE)]
    /\ isUploading = FALSE /\ page = 1 /\ stopped = FALSE /\ saves = {}
    /\ controller = "none" /\ started = 0
    /\ pageOf = [r \in Runs |-> 1]
    /\ waiting = [r \in Runs |-> {}]
    /\ chunking = [r \in Runs |-> {}]
    /\ sent = [r \in Runs |-> {}]
    /\ over = [r \in Runs |-> TRUE]

UserStep ==
    \/ AddFiles \/ Clear \/ StartUpload \/ StopUpload \/ Save \/ Leave
    \/ \E f \in Files : RemoveFile(f)

Answer(r, f) == UploadSucceeds(r, f) \/ UploadIgnored(r, f) \/ UploadFails(r, f)

TaskStep(r, f) == Chunk(r, f) \/ Send(r, f) \/ Answer(r, f)

Next ==
    \/ UserStep
    \/ \E s \in saves : SaveSucceeds(s) \/ SaveFails(s)
    \/ \E r \in Runs, f \in Files : TaskStep(r, f)

Spec == Init /\ [][Next]_vars

\* Timers fire, and a request is answered or times out, while the tab lives.
Fairness ==
    \A r \in Runs, f \in Files :
        /\ WF_vars(Send(r, f))
        /\ WF_vars(Answer(r, f))

FairSpec == Spec /\ Fairness

-----------------------------------------------------------------------------
TypeOK ==
    /\ rows \in [Files -> Row]
    /\ isUploading \in BOOLEAN /\ page \in Pages /\ stopped \in BOOLEAN
    /\ saves \subseteq [page: Pages, files: SUBSET Files]
    /\ controller \in {"none", "live", "aborted"}
    /\ started \in 0..MaxRuns
    /\ pageOf \in [Runs -> Pages]
    /\ waiting \in [Runs -> SUBSET Files]
    /\ chunking \in [Runs -> SUBSET Files]
    /\ sent \in [Runs -> SUBSET Files]
    /\ over \in [Runs -> BOOLEAN]

OfPage == {r \in Runs : pageOf[r] = page}

\* While a file of this page is being sent the page says so, and with it the
\* picker and the button that would send it once more stay disabled: unless
\* Stop was pressed, whose run is over when the first abort is noticed
\* though two more files may still be on their way (document-upload.tsx:182).
BusyWhileSending ==
    ~stopped => \A r \in OfPage : Active(r) # {} => isUploading

\* A file is sent by one task at a time, or the server would be asked twice
\* for the same file: two runs of one page never have a file in common,
\* unless Stop was pressed.
OneSenderPerFile ==
    ~stopped => \A r, s \in OfPage : \A f \in Files :
        /\ f \in waiting[r] \cup Active(r) /\ f \in waiting[s] \cup Active(s) => r = s
        /\ f \notin waiting[r] \cap Active(r) /\ f \notin chunking[r] \cap sent[r]

\* A row that has its document but does not say success blocks step 3 for
\* good, for Upload skips it: this takes two tasks of one file, of which
\* the second fails, and so it takes a Stop.
StuckNeedsStop ==
    \A f \in Listed : rows[f].doc /\ rows[f].status # "success" => stopped

\* What the runs of this and of earlier mounts hold.
RunsAgree == \A r \in Runs :
    /\ pageOf[r] <= page
    /\ r > started => over[r] /\ waiting[r] \cup Active(r) = {}
    /\ waiting[r] \cap Active(r) = {} /\ chunking[r] \cap sent[r] = {}

\* What the page shows of its own runs: one at most is not over, it is the
\* one that Stop would abort, and no row it still has work for has a document.
PageAgrees == ~stopped => \A r \in OfPage :
    /\ over[r] <=> waiting[r] \cup Active(r) = {}
    /\ ~over[r] => isUploading /\ controller = "live"
    /\ \A s \in OfPage : ~over[r] /\ ~over[s] => r = s
    /\ \A f \in Listed : f \in waiting[r] \cup Active(r) => ~rows[f].doc

\* The inductive invariant of UploadPageProofs: until Stop is pressed, the
\* page and the one run it started agree on what is left to do, whatever
\* runs of earlier mounts still do (document-upload.tsx:99-203).
IndInv == TypeOK /\ RunsAgree /\ PageAgrees /\ StuckNeedsStop

StartsNothing == \A r \in Runs : chunking'[r] \subseteq chunking[r]

\* Upload has not been pressed on the page that is shown.
PageIsFresh == \A r \in 1..started : pageOf[r] < page

\* "stop upload after page unmount" (document-upload.tsx:103): once a page is
\* left, the runs of all earlier mounts start no more files, until Upload is
\* pressed on the page that is shown now; it replaces the controller they were
\* to see aborted, and from there on they do go on.
LeavingStopsUploads == [][PageIsFresh' => StartsNothing]_vars

\* Every upload ends, stopped or not, whatever fails: the page does not
\* remain disabled.
UploadingEnds == isUploading ~> ~isUploading

=============================================================================
