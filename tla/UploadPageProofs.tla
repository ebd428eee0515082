--------------------------- MODULE UploadPageProofs ---------------------------
(***************************************************************************)
(* Theorems about UploadPage, for every set of files, every limit and any  *)
(* number of runs and mounts.                                              *)
(***************************************************************************)
EXTENDS UploadPage, TLAPS

USE ConstantsAssumption

-----------------------------------------------------------------------------
(* Rows and runs                                                           *)

\* The page starts with nothing to do.
LEMMA InitInv == Init => IndInv
<1> SUFFICES ASSUME Init PROVE IndInv
  OBVIOUS
<1>1. TypeOK
  <2>1. rows \in [Files -> Row]
    BY SMT DEF RowOf, Row, Status, Init
  <2>2. page \in Pages /\ started \in 0..MaxRuns /\ pageOf \in [Runs -> Pages]
    BY SMT DEF Init, Pages, Runs
  <2>3. /\ waiting \in [Runs -> SUBSET Files] /\ chunking \in [Runs -> SUBSET Files]
        /\ sent \in [Runs -> SUBSET Files] /\ over \in [Runs -> BOOLEAN]
    BY Zenon DEF Init
  <2> QED BY <2>1, <2>2, <2>3, Zenon DEF Init, TypeOK
<1>2. Listed = {}
  BY SMT DEF RowOf, Row, Status, Init, Listed
<1>3. \A r \in Runs : pageOf[r] = 1 /\ waiting[r] \cup Active(r) = {} /\ over[r]
  BY SMT DEF Init, Active
<1>4. RunsAgree
  BY <1>3, SMT DEF Init, RunsAgree, Active
<1>5. PageAgrees
  BY <1>2, <1>3, SMT DEF PageAgrees, OfPage
<1> QED BY <1>1, <1>2, <1>4, <1>5 DEF IndInv, StuckNeedsStop

\* A step of the user that leaves the runs alone, and gives no document to a
\* row that is listed.
LEMMA UserKeeps ==
  ASSUME IndInv, rows' \in [Files -> Row],
         saves' \subseteq [page: Pages, files: SUBSET Files],
         UNCHANGED <<isUploading, page, stopped, controller, runVars>>,
         \A f \in Listed' : rows'[f].doc => f \in Listed /\ rows'[f] = rows[f]
  PROVE  IndInv'
<1>0. UNCHANGED <<isUploading, page, stopped, controller, started, pageOf,
                  waiting, chunking, sent, over>>
  BY DEF runVars
<1>1. TypeOK'
  BY <1>0, SMT DEF IndInv, TypeOK
<1>2. RunsAgree'
  BY <1>0, SMT DEF IndInv, RunsAgree, Active
<1>3. OfPage' = OfPage /\ (\A r \in Runs : Active(r)' = Active(r))
  BY <1>0, SMT DEF OfPage, Active
<1>4. \A f \in Listed' : rows'[f].doc => f \in Listed /\ rows[f].doc
  OBVIOUS
<1>5. PageAgrees'
  BY <1>0, <1>3, <1>4, SMT DEF IndInv, PageAgrees, OfPage
<1>6. StuckNeedsStop'
  BY <1>0, SMT DEF IndInv, StuckNeedsStop
<1> QED BY <1>1, <1>2, <1>5, <1>6 DEF IndInv

LEMMA AddFilesKeeps == IndInv /\ AddFiles => IndInv'
<1> SUFFICES ASSUME IndInv, AddFiles PROVE IndInv'
  OBVIOUS
<1>0. rows \in [Files -> Row]
  BY DEF IndInv, TypeOK
<1>1. PICK new \in SUBSET {f \in Files : rows[f].status = "unpicked"} :
        rows' = [f \in Files |-> IF f \in new THEN RowOf("pending", FALSE) ELSE rows[f]]
  BY DEF AddFiles
<1>2. rows' \in [Files -> Row]
  BY <1>1, <1>0, SMT DEF RowOf, Row, Status
<1>3. \A f \in Files : rows'[f].doc => rows'[f] = rows[f]
  BY <1>1, SMT DEF RowOf, Row, Status
<1>4. \A f \in Listed' : rows'[f].doc => f \in Listed /\ rows'[f] = rows[f]
  BY <1>3, SMT DEF Listed
<1>5. UNCHANGED <<isUploading, page, stopped, saves, controller, runVars>>
  BY DEF AddFiles
<1>6. saves' \subseteq [page: Pages, files: SUBSET Files]
  BY <1>5 DEF IndInv, TypeOK
<1> QED BY <1>2, <1>4, <1>5, <1>6, UserKeeps

LEMMA RemoveFileKeeps ==
  ASSUME IndInv, NEW f \in Files, RemoveFile(f) PROVE IndInv'
<1>0. rows \in [Files -> Row]
  BY DEF IndInv, TypeOK
<1>1. rows' = [rows EXCEPT ![f] = RowOf("removed", FALSE)]
  BY DEF RemoveFile
<1>2. rows' \in [Files -> Row]
  BY <1>1, <1>0, SMT DEF RowOf, Row, Status
<1>3. \A g \in Files : rows'[g].doc => rows'[g] = rows[g]
  BY <1>1, <1>0, SMT DEF RowOf, Row, Status
<1>4. \A g \in Listed' : rows'[g].doc => g \in Listed /\ rows'[g] = rows[g]
  BY <1>3, SMT DEF Listed
<1>5. UNCHANGED <<isUploading, page, stopped, saves, controller, runVars>>
  BY DEF RemoveFile
<1>6. saves' \subseteq [page: Pages, files: SUBSET Files]
  BY <1>5 DEF IndInv, TypeOK
<1> QED BY <1>2, <1>4, <1>5, <1>6, UserKeeps

\* Clearing the list leaves no row listed.
LEMMA ClearedLists ==
  ASSUME TypeOK, rows' = Cleared
  PROVE  rows' \in [Files -> Row] /\ Listed' = {}
<1>0. rows \in [Files -> Row]
  BY DEF TypeOK
<1>1. rows' \in [Files -> Row]
  BY <1>0, SMT DEF RowOf, Row, Status, Cleared
<1>2. \A f \in Files : rows'[f].status \in {"unpicked", "removed"}
  BY <1>0, SMT DEF RowOf, Row, Status, Cleared, Listed
<1> QED BY <1>1, <1>2, SMT DEF Listed

LEMMA ClearKeeps == IndInv /\ Clear => IndInv'
<1> SUFFICES ASSUME IndInv, Clear PROVE IndInv'
  OBVIOUS
<1>1. rows' \in [Files -> Row] /\ Listed' = {}
  BY ClearedLists DEF Clear, IndInv
<1> QED BY <1>1, UserKeeps, SMT DEF Clear, IndInv, TypeOK

LEMMA SaveKeeps == IndInv /\ Save => IndInv'
<1> SUFFICES ASSUME IndInv, Save PROVE IndInv'
  OBVIOUS
<1>1. saves' \subseteq [page: Pages, files: SUBSET Files]
  BY SMT DEF Save, IndInv, TypeOK, Listed
<1>2. UNCHANGED <<rows, isUploading, page, stopped, controller, runVars>>
  BY DEF Save
<1>3. \A f \in Listed' : rows'[f].doc => f \in Listed /\ rows'[f] = rows[f]
  BY <1>2, SMT DEF Listed
<1> QED BY <1>1, <1>2, <1>3, UserKeeps, SMT DEF IndInv, TypeOK

LEMMA SaveFailsKeeps == ASSUME IndInv, NEW s \in saves, SaveFails(s) PROVE IndInv'
<1>1. UNCHANGED <<rows, isUploading, page, stopped, controller, runVars>>
  BY DEF SaveFails
<1>2. \A f \in Listed' : rows'[f].doc => f \in Listed /\ rows'[f] = rows[f]
  BY <1>1, SMT DEF Listed
<1> QED BY <1>1, <1>2, UserKeeps, SMT DEF IndInv, TypeOK, SaveFails

\* Only the step that presses Stop leaves the rows and the runs alone and
\* still changes what is promised: from then on, next to nothing is.
LEMMA StopUploadKeeps == IndInv /\ StopUpload => IndInv'
<1> SUFFICES ASSUME IndInv, StopUpload PROVE IndInv'
  OBVIOUS
<1>0. stopped' = TRUE /\ controller' = "aborted"
      /\ UNCHANGED <<rows, isUploading, page, saves, started, pageOf,
                     waiting, chunking, sent, over>>
  BY DEF StopUpload, runVars
<1>1. TypeOK'
  BY <1>0, SMT DEF IndInv, TypeOK
<1>2. RunsAgree'
  BY <1>0, SMT DEF IndInv, RunsAgree, Active
<1> QED BY <1>0, <1>1, <1>2 DEF IndInv, PageAgrees, StuckNeedsStop

LEMMA UnmountKeeps ==
  ASSUME IndInv, Unmount, saves' \subseteq saves PROVE IndInv'
<1>0. /\ page < MaxPages /\ page' = page + 1 /\ isUploading' = FALSE /\ stopped' = FALSE
      /\ controller' \in {"none", "aborted"}
      /\ UNCHANGED <<started, pageOf, waiting, chunking, sent, over>>
  BY DEF Unmount, runVars
<1>1. rows' \in [Files -> Row] /\ Listed' = {}
  BY ClearedLists DEF Unmount, IndInv
<1>2. TypeOK'
  <2>1. page' \in Pages
    BY <1>0, SMT DEF IndInv, TypeOK, Pages
  <2>2. saves' \subseteq [page: Pages, files: SUBSET Files]
    BY DEF IndInv, TypeOK
  <2> QED BY <1>0, <1>1, <2>1, <2>2, Zenon DEF IndInv, TypeOK
<1>3. RunsAgree'
  BY <1>0, SMT DEF IndInv, TypeOK, RunsAgree, Active, Pages
<1>4. OfPage' = {}
  BY <1>0, SMT DEF IndInv, TypeOK, RunsAgree, OfPage, Pages
<1> QED BY <1>1, <1>2, <1>3, <1>4 DEF IndInv, PageAgrees, StuckNeedsStop

-----------------------------------------------------------------------------
(* Upload                                                                  *)

\* A run of the page takes all the rows that have no document.  Without a
\* Stop it is the only one with work to do, for the button shows that none is.
LEMMA StartUploadKeeps == IndInv /\ StartUpload => IndInv'
<1> SUFFICES ASSUME IndInv, StartUpload PROVE IndInv'
  OBVIOUS
<1>1. PICK t \in First : Begin(t)
  BY DEF StartUpload
<1>n. PICK n \in Runs : n = started + 1
  BY <1>1, SMT DEF Begin, IndInv, TypeOK, Runs
<1>2. n \in Runs /\ t \subseteq Unsaved /\ Unsaved \subseteq Files /\ ~isUploading
  BY <1>1, SMT DEF StartUpload, First, Unsaved, Listed
<1>3. /\ started' = n /\ controller' = "live"
      /\ chunking' = [chunking EXCEPT ![n] = t]
      /\ waiting' = [waiting EXCEPT ![n] = Unsaved \ t]
      /\ pageOf' = [pageOf EXCEPT ![n] = page]
      /\ over' = [over EXCEPT ![n] = (Unsaved = {})]
      /\ isUploading' = (Unsaved # {})
      /\ UNCHANGED <<rows, page, stopped, saves, sent>>
  BY <1>1, <1>n DEF Begin
<1>4. n > started /\ sent[n] = {} /\ Listed' = Listed
  BY <1>2, <1>3, <1>n, SMT DEF IndInv, RunsAgree, Active, TypeOK, Listed
<1>5. /\ chunking'[n] = t /\ waiting'[n] = Unsaved \ t /\ pageOf'[n] = page
      /\ over'[n] = (Unsaved = {}) /\ sent'[n] = {}
      /\ \A r \in Runs \ {n} :
           /\ chunking'[r] = chunking[r] /\ waiting'[r] = waiting[r] /\ sent'[r] = sent[r]
           /\ pageOf'[r] = pageOf[r] /\ over'[r] = over[r]
  BY <1>2, <1>3, <1>4, SMT DEF IndInv, TypeOK
<1>6. TypeOK'
  <2>1. n \in 0..MaxRuns /\ page \in Pages
    BY <1>1, <1>2, <1>n, SMT DEF Begin, IndInv, TypeOK, Runs
  <2>2. t \in SUBSET Files /\ Unsaved \ t \in SUBSET Files
    BY <1>2
  <2> QED BY <1>2, <1>3, <2>1, <2>2, SMT DEF IndInv, TypeOK
<1>7. waiting'[n] \cup Active(n)' = Unsaved
  <2>1. Active(n)' = t
    BY <1>5 DEF Active
  <2> QED BY <1>2, <1>5, <2>1, SMT
<1>8. RunsAgree'
  <2> SUFFICES ASSUME NEW r \in Runs
               PROVE  /\ pageOf'[r] <= page'
                      /\ r > started' => over'[r] /\ waiting'[r] \cup Active(r)' = {}
                      /\ waiting'[r] \cap Active(r)' = {} /\ chunking'[r] \cap sent'[r] = {}
    BY DEF RunsAgree
  <2>1. CASE r = n
    BY <2>1, <1>2, <1>3, <1>5, SMT DEF Active, IndInv, TypeOK, Runs, Pages
  <2>2. CASE r # n
    BY <2>2, <1>2, <1>3, <1>5, <1>n, SMT DEF Active, IndInv, TypeOK, RunsAgree, Runs
  <2> QED BY <2>1, <2>2
<1>9. PageAgrees'
  <2> SUFFICES ASSUME ~stopped', NEW r \in OfPage'
               PROVE  /\ over'[r] <=> waiting'[r] \cup Active(r)' = {}
                      /\ ~over'[r] => isUploading' /\ controller' = "live"
                      /\ \A s \in OfPage' : ~over'[r] /\ ~over'[s] => r = s
                      /\ \A f \in Listed' : f \in waiting'[r] \cup Active(r)' => ~rows'[f].doc
    BY DEF PageAgrees
  <2>1. ~stopped /\ r \in Runs
    BY <1>3 DEF OfPage
  <2>2. \A s \in OfPage' : s # n =>
          over'[s] /\ waiting'[s] \cup Active(s)' = {}
    BY <2>1, <1>2, <1>3, <1>5, SMT DEF IndInv, PageAgrees, OfPage, Active
  <2>3. CASE r = n
    <3>1. over'[n] <=> waiting'[n] \cup Active(n)' = {}
      BY <1>5, <1>7, Zenon
    <3>2. ~over'[n] => isUploading' /\ controller' = "live"
      BY <1>3, <1>5, Zenon
    <3>3. \A s \in OfPage' : ~over'[n] /\ ~over'[s] => n = s
      BY <2>2
    <3>4. \A f \in Unsaved : ~rows'[f].doc
      BY <1>3 DEF Unsaved
    <3> QED BY <2>3, <3>1, <3>2, <3>3, <3>4, <1>7
  <2>4. CASE r # n
    BY <2>2, <2>4
  <2> QED BY <2>3, <2>4
<1>10. StuckNeedsStop'
  BY <1>3, <1>4, SMT DEF IndInv, StuckNeedsStop
<1> QED BY <1>6, <1>8, <1>9, <1>10 DEF IndInv

-----------------------------------------------------------------------------
(* Tasks                                                                   *)

\* setDocuments of a task writes one row of its own page, or none.
LEMMA MarkWrites ==
  ASSUME TypeOK, NEW r \in Runs, NEW f \in Files,
         NEW s \in {"uploading", "success", "failed"}, NEW d \in BOOLEAN,
         Mark(r, f, s, d)
  PROVE  /\ rows' \in [Files -> Row] /\ Listed' = Listed
         /\ \A g \in Files : g # f => rows'[g] = rows[g]
         /\ r \notin OfPage => rows' = rows
         /\ \/ rows' = rows
            \/ r \in OfPage /\ f \in Listed /\ rows'[f].status = s /\ rows'[f].doc = d
<1>0. rows \in [Files -> Row]
  BY DEF TypeOK
<1>1. CASE pageOf[r] = page /\ f \in Listed
  <2>1. rows' = [rows EXCEPT ![f] = RowOf(s, d)]
    BY <1>1 DEF Mark
  <2>2. rows' \in [Files -> Row] /\ \A g \in Files : g # f => rows'[g] = rows[g]
    BY <1>0, <2>1, SMT DEF RowOf, Row, Status
  <2>3. rows'[f].status = s /\ rows'[f].doc = d
    BY <1>0, <2>1, SMT DEF RowOf, Row
  <2>4. Listed' = Listed
    BY <1>0, <1>1, <2>2, <2>3, SMT DEF Listed
  <2> QED BY <1>1, <2>2, <2>3, <2>4 DEF OfPage
<1>2. CASE ~(pageOf[r] = page /\ f \in Listed)
  <2>1. rows' = rows
    BY <1>2 DEF Mark
  <2> QED BY <1>0, <2>1 DEF Listed
<1> QED BY <1>1, <1>2

\* A task that is still on its way has no document yet: what it writes does
\* not make a row stuck, unless Stop was pressed.
LEMMA TaskStuck ==
  ASSUME IndInv, NEW r \in Runs, NEW f \in Active(r),
         NEW s \in {"uploading", "success", "failed"}, NEW d \in BOOLEAN,
         f \in Files, Mark(r, f, s, d), s = "success" \/ d = rows[f].doc,
         stopped' = stopped
  PROVE  StuckNeedsStop'
<1>1. /\ Listed' = Listed
      /\ \A g \in Files : g # f => rows'[g] = rows[g]
      /\ \/ rows' = rows
         \/ r \in OfPage /\ f \in Listed /\ rows'[f].status = s /\ rows'[f].doc = d
  BY MarkWrites DEF IndInv
<1> SUFFICES ASSUME ~stopped, NEW g \in Listed, rows'[g].doc, rows'[g].status # "success"
             PROVE  FALSE
  BY <1>1 DEF StuckNeedsStop
<1>2. g \in Files
  BY DEF Listed
<1>3. CASE rows'[g] = rows[g]
  BY <1>3 DEF IndInv, StuckNeedsStop
<1>4. CASE rows'[g] # rows[g]
  <2>1. g = f /\ r \in OfPage /\ rows'[f].status = s /\ rows'[f].doc = d
    BY <1>1, <1>2, <1>4
  <2>2. rows[f].doc
    BY <2>1
  <2> QED BY <2>1, <2>2 DEF IndInv, PageAgrees
<1> QED BY <1>3, <1>4

LEMMA ChunkKeeps ==
  ASSUME IndInv, NEW r \in Runs, NEW f \in Files, Chunk(r, f) PROVE IndInv'
<1>0. /\ f \in Active(r) /\ Mark(r, f, "uploading", rows[f].doc) /\ rows[f].doc \in BOOLEAN
      /\ UNCHANGED <<isUploading, page, stopped, saves, controller, started, pageOf,
                     waiting, chunking, sent, over>>
  BY SMT DEF Chunk, Active, runVars, IndInv, TypeOK, Row
<1>1. /\ rows' \in [Files -> Row] /\ Listed' = Listed
      /\ \A g \in Files : g # f => rows'[g] = rows[g]
      /\ rows'[f].doc = rows[f].doc
  BY <1>0, MarkWrites DEF IndInv
<1>2. TypeOK'
  BY <1>0, <1>1, Zenon DEF IndInv, TypeOK
<1>3. RunsAgree'
  BY <1>0, SMT DEF IndInv, RunsAgree, Active
<1>4. \A g \in Listed : rows'[g].doc = rows[g].doc
  BY <1>1, Zenon DEF Listed
<1>5. PageAgrees'
  BY <1>0, <1>1, <1>4, SMT DEF IndInv, PageAgrees, OfPage, Active
<1>6. StuckNeedsStop'
  BY <1>0, TaskStuck
<1> QED BY <1>2, <1>3, <1>5, <1>6 DEF IndInv

LEMMA SendKeeps ==
  ASSUME IndInv, NEW r \in Runs, NEW f \in Files, Send(r, f) PROVE IndInv'
<1>0. /\ f \in chunking[r] /\ f \in Active(r)
      /\ Mark(r, f, "uploading", rows[f].doc) /\ rows[f].doc \in BOOLEAN
      /\ chunking' = [chunking EXCEPT ![r] = chunking[r] \ {f}]
      /\ sent' = [sent EXCEPT ![r] = sent[r] \cup {f}]
      /\ UNCHANGED <<isUploading, page, stopped, saves, controller, started, pageOf,
                     waiting, over>>
  BY SMT DEF Send, Active, IndInv, TypeOK, Row
<1>1. /\ rows' \in [Files -> Row] /\ Listed' = Listed
      /\ \A g \in Files : g # f => rows'[g] = rows[g]
      /\ rows'[f].doc = rows[f].doc
  BY <1>0, MarkWrites DEF IndInv
<1>2. chunking' \in [Runs -> SUBSET Files] /\ sent' \in [Runs -> SUBSET Files]
  BY <1>0, SMT DEF IndInv, TypeOK
<1>3. TypeOK'
  BY <1>0, <1>1, <1>2, Zenon DEF IndInv, TypeOK
<1>4. \A q \in Runs : Active(q)' = Active(q)
  BY <1>0, SMT DEF IndInv, TypeOK, Active
<1>5. \A q \in Runs : chunking'[q] \cap sent'[q] = {}
  BY <1>0, SMT DEF IndInv, TypeOK, RunsAgree
<1>6. RunsAgree'
  BY <1>0, <1>4, <1>5, SMT DEF IndInv, RunsAgree
<1>7. \A g \in Listed : rows'[g].doc = rows[g].doc
  BY <1>1, Zenon DEF Listed
<1>8. PageAgrees'
  BY <1>0, <1>1, <1>4, <1>7, SMT DEF IndInv, PageAgrees, OfPage
<1>9. StuckNeedsStop'
  BY <1>0, TaskStuck
<1> QED BY <1>3, <1>6, <1>8, <1>9 DEF IndInv

\* What a callback leaves of its run.
CallbackLeaves(r, f) ==
    /\ waiting'[r] \subseteq waiting[r]
    /\ Active(r)' \subseteq (Active(r) \ {f}) \cup (waiting[r] \ waiting'[r])
    /\ chunking'[r] \cap sent'[r] = {}
    /\ over[r] => over'[r] /\ waiting'[r] = waiting[r]
    /\ ~over[r] /\ controller = "live" => (over'[r] <=> waiting'[r] \cup Active(r)' = {})
    /\ isUploading' = isUploading \/ (over'[r] /\ ~over[r] /\ isUploading' = (isUploading /\ pageOf[r] # page))

LEMMA CallbackRuns ==
  ASSUME TypeOK, RunsAgree, NEW r \in Runs, NEW f \in Files, Callback(r, f)
  PROVE  /\ waiting' \in [Runs -> SUBSET Files] /\ chunking' \in [Runs -> SUBSET Files]
         /\ sent' \in [Runs -> SUBSET Files] /\ over' \in [Runs -> BOOLEAN]
         /\ isUploading' \in BOOLEAN
         /\ \A q \in Runs \ {r} :
              /\ waiting'[q] = waiting[q] /\ chunking'[q] = chunking[q]
              /\ sent'[q] = sent[q] /\ over'[q] = over[q]
         /\ CallbackLeaves(r, f)
<1>0. /\ f \in sent[r] /\ sent' = [sent EXCEPT ![r] = sent[r] \ {f}]
      /\ sent \in [Runs -> SUBSET Files] /\ sent' \in [Runs -> SUBSET Files]
      /\ waiting \in [Runs -> SUBSET Files] /\ chunking \in [Runs -> SUBSET Files]
      /\ over \in [Runs -> BOOLEAN] /\ isUploading \in BOOLEAN
      /\ waiting[r] \cap (chunking[r] \cup sent[r]) = {} /\ chunking[r] \cap sent[r] = {}
  BY SMT DEF Callback, TypeOK, RunsAgree, Active
<1>1. CASE StartsNext(r)
  <2>1. PICK g \in waiting[r] : Begins(r, g)
    BY <1>1 DEF StartsNext
  <2>2. /\ waiting' = [waiting EXCEPT ![r] = waiting[r] \ {g}]
        /\ chunking' = [chunking EXCEPT ![r] = chunking[r] \cup {g}]
        /\ over' = over /\ isUploading' = isUploading /\ ~over[r]
    BY <1>1, <2>1 DEF Begins, StartsNext
  <2> QED BY <1>0, <2>2, SMT DEF CallbackLeaves, Active
<1>2. CASE NoticesAbort(r)
  <2>1. /\ waiting' = waiting /\ chunking' = chunking /\ ~over[r] /\ controller = "aborted"
        /\ over' = [over EXCEPT ![r] = TRUE]
        /\ isUploading' = (isUploading /\ pageOf[r] # page)
    BY <1>2 DEF NoticesAbort, Finish
  <2>2. over' \in [Runs -> BOOLEAN] /\ over'[r] /\ \A q \in Runs \ {r} : over'[q] = over[q]
    BY <1>0, <2>1, SMT
  <2> QED BY <1>0, <2>1, <2>2, SMT DEF CallbackLeaves, Active
<1>3. CASE Completes(r)
  <2>1. /\ waiting' = waiting /\ chunking' = chunking /\ ~over[r]
        /\ waiting[r] = {} /\ chunking[r] \cup sent'[r] = {}
        /\ over' = [over EXCEPT ![r] = TRUE]
        /\ isUploading' = (isUploading /\ pageOf[r] # page)
    BY <1>3 DEF Completes, Finish
  <2>2. over' \in [Runs -> BOOLEAN] /\ over'[r] /\ \A q \in Runs \ {r} : over'[q] = over[q]
    BY <1>0, <2>1, SMT
  <2> QED BY <1>0, <2>1, <2>2, SMT DEF CallbackLeaves, Active
<1>4. CASE GoesOn(r)
  <2>1. /\ waiting' = waiting /\ chunking' = chunking /\ over' = over
        /\ isUploading' = isUploading
        /\ over[r] \/ (waiting[r] = {} /\ chunking[r] \cup sent'[r] # {})
    BY <1>4 DEF GoesOn
  <2> QED BY <1>0, <2>1, SMT DEF CallbackLeaves, Active
<1> QED BY <1>1, <1>2, <1>3, <1>4 DEF Callback

LEMMA AnswerKeeps ==
  ASSUME IndInv, NEW r \in Runs, NEW f \in Files, Callback(r, f),
         \/ UNCHANGED rows
         \/ \E s \in {"success", "failed"}, d \in BOOLEAN :
              (s = "success" \/ d = rows[f].doc) /\ Mark(r, f, s, d)
  PROVE  IndInv'
<1>0. /\ f \in sent[r] /\ f \in Active(r)
      /\ UNCHANGED <<page, stopped, saves, controller, started, pageOf>>
  BY DEF Callback, Active
<1>1. /\ waiting' \in [Runs -> SUBSET Files] /\ chunking' \in [Runs -> SUBSET Files]
      /\ sent' \in [Runs -> SUBSET Files] /\ over' \in [Runs -> BOOLEAN]
      /\ isUploading' \in BOOLEAN
      /\ \A q \in Runs \ {r} :
           /\ waiting'[q] = waiting[q] /\ chunking'[q] = chunking[q]
           /\ sent'[q] = sent[q] /\ over'[q] = over[q]
      /\ CallbackLeaves(r, f)
  BY CallbackRuns DEF IndInv
<1>2. /\ rows' \in [Files -> Row] /\ Listed' = Listed
      /\ \A g \in Files : g # f => rows'[g] = rows[g]
      /\ r \notin OfPage => rows' = rows
  <2>1. CASE UNCHANGED rows
    BY <2>1 DEF IndInv, TypeOK, Listed
  <2>2. ASSUME NEW s \in {"success", "failed"}, NEW d \in BOOLEAN, Mark(r, f, s, d)
        PROVE  /\ rows' \in [Files -> Row] /\ Listed' = Listed
               /\ \A g \in Files : g # f => rows'[g] = rows[g]
               /\ r \notin OfPage => rows' = rows
    BY <2>2, MarkWrites DEF IndInv
  <2> QED BY <2>1, <2>2
<1>3. TypeOK'
  BY <1>0, <1>1, <1>2, Zenon DEF IndInv, TypeOK
<1>4. /\ OfPage' = OfPage
      /\ \A q \in Runs \ {r} : Active(q)' = Active(q)
      /\ waiting[r] \cap Active(r) = {} /\ r <= started
  <2>1. r <= started
    BY <1>0, SMT DEF IndInv, RunsAgree, TypeOK, Runs, Active
  <2> QED BY <1>0, <1>1, <2>1 DEF OfPage, Active, IndInv, RunsAgree
<1>5. RunsAgree'
  <2> SUFFICES ASSUME NEW q \in Runs
               PROVE  /\ pageOf'[q] <= page'
                      /\ q > started' => over'[q] /\ waiting'[q] \cup Active(q)' = {}
                      /\ waiting'[q] \cap Active(q)' = {} /\ chunking'[q] \cap sent'[q] = {}
    BY DEF RunsAgree
  <2>1. CASE q # r
    BY <2>1, <1>0, <1>1, <1>4 DEF IndInv, RunsAgree
  <2>2. CASE q = r
    <3>1. pageOf'[r] <= page' /\ ~(r > started')
      BY <1>0, <1>4, SMT DEF IndInv, RunsAgree, TypeOK, Runs
    <3>2. waiting'[r] \cap Active(r)' = {} /\ chunking'[r] \cap sent'[r] = {}
      BY <1>1, <1>4, SMT DEF CallbackLeaves
    <3> QED BY <2>2, <3>1, <3>2
  <2> QED BY <2>1, <2>2
<1>6. PageAgrees'
  <2> SUFFICES ASSUME ~stopped PROVE PageAgrees'
    BY <1>0 DEF PageAgrees
  <2>1. CASE r \notin OfPage
    <3>1. rows' = rows /\ isUploading' = isUploading
      BY <2>1, <1>1, <1>2 DEF CallbackLeaves, OfPage, IndInv, TypeOK
    <3>2. \A q \in OfPage : q \in Runs \ {r}
      BY <2>1 DEF OfPage
    <3> QED BY <3>1, <3>2, <1>0, <1>1, <1>2, <1>4, SMT DEF IndInv, PageAgrees
  <2>2. CASE r \in OfPage
    <3>1. ~over[r] /\ controller = "live" /\ isUploading
      BY <2>2, <1>0 DEF IndInv, PageAgrees
    <3>2. \A q \in OfPage : q # r => over'[q] /\ waiting'[q] \cup Active(q)' = {}
      BY <2>2, <3>1, <1>1, <1>4, SMT DEF IndInv, PageAgrees, OfPage
    <3>3. over'[r] <=> waiting'[r] \cup Active(r)' = {}
      BY <3>1, <1>1 DEF CallbackLeaves
    <3>4. ~over'[r] => isUploading' /\ controller' = "live"
      BY <3>1, <1>0, <1>1 DEF CallbackLeaves
    <3>5. ASSUME NEW g \in Listed, g \in waiting'[r] \cup Active(r)' PROVE ~rows'[g].doc
      <4>1. g # f /\ g \in waiting[r] \cup Active(r)
        BY <3>5, <1>0, <1>1, <1>4, SMT DEF CallbackLeaves
      <4>2. rows'[g] = rows[g]
        BY <4>1, <1>2 DEF Listed
      <4> QED BY <2>2, <4>1, <4>2 DEF IndInv, PageAgrees
    <3> QED BY <3>2, <3>3, <3>4, <3>5, <1>2, <1>4 DEF PageAgrees
  <2> QED BY <2>1, <2>2
<1>7. StuckNeedsStop'
  <2>1. CASE UNCHANGED rows
    BY <1>0, <2>1 DEF IndInv, StuckNeedsStop, Listed
  <2>2. ASSUME NEW s \in {"success", "failed"}, NEW d \in BOOLEAN,
               s = "success" \/ d = rows[f].doc, Mark(r, f, s, d)
        PROVE  StuckNeedsStop'
    BY <1>0, <2>2, TaskStuck
  <2> QED BY <2>1, <2>2
<1> QED BY <1>3, <1>5, <1>6, <1>7 DEF IndInv

-----------------------------------------------------------------------------
(* Theorems                                                                *)

LEMMA NextKeeps == IndInv /\ [Next]_vars => IndInv'
<1> SUFFICES ASSUME IndInv, [Next]_vars PROVE IndInv'
  OBVIOUS
<1>1. CASE UserStep
  BY <1>1, AddFilesKeeps, ClearKeeps, StartUploadKeeps, StopUploadKeeps, SaveKeeps,
     RemoveFileKeeps, UnmountKeeps DEF UserStep, Leave
<1>2. ASSUME NEW s \in saves, SaveSucceeds(s) \/ SaveFails(s) PROVE IndInv'
  BY <1>2, SaveFailsKeeps, UnmountKeeps DEF SaveSucceeds
<1>3. ASSUME NEW r \in Runs, NEW f \in Files, TaskStep(r, f) PROVE IndInv'
  <2>1. rows[f].doc \in BOOLEAN
    BY SMT DEF IndInv, TypeOK, Row
  <2>2. CASE Answer(r, f)
    BY <2>1, <2>2, AnswerKeeps DEF Answer, UploadSucceeds, UploadIgnored, UploadFails
  <2> QED BY <1>3, <2>2, ChunkKeeps, SendKeeps DEF TaskStep
<1>4. CASE UNCHANGED vars
  <2>1. UNCHANGED <<rows, isUploading, page, stopped, saves, controller, runVars>>
    BY <1>4 DEF vars, runVars
  <2>2. \A f \in Listed' : rows'[f].doc => f \in Listed /\ rows'[f] = rows[f]
    BY <2>1 DEF Listed
  <2> QED BY <2>1, <2>2, UserKeeps DEF IndInv, TypeOK
<1> QED BY <1>1, <1>2, <1>3, <1>4 DEF Next

\* The invariant behind the others: what the page shows and what its run has
\* still to do agree, until Stop is pressed.
THEOREM Invariance == Spec => []IndInv
<1> QED BY InitInv, NextKeeps, PTL DEF Spec

\* Types, which need RunsAgree for nothing but are kept with the rest.
THEOREM TypeCorrect == Spec => []TypeOK
<1>1. IndInv => TypeOK
  BY DEF IndInv
<1> QED BY <1>1, Invariance, PTL

\* While a file of this page is sent, the page says so.
THEOREM BusyIsShown == Spec => []BusyWhileSending
<1>1. IndInv => BusyWhileSending
  BY DEF IndInv, PageAgrees, BusyWhileSending, OfPage
<1> QED BY <1>1, Invariance, PTL

\* No file is in the hands of two tasks of a page where Stop was not pressed.
THEOREM OneSender == Spec => []OneSenderPerFile
<1>1. ASSUME IndInv PROVE OneSenderPerFile
  <2> SUFFICES ASSUME ~stopped, NEW r \in OfPage, NEW s \in OfPage, NEW f \in Files
               PROVE  /\ f \in waiting[r] \cup Active(r) /\ f \in waiting[s] \cup Active(s)
                           => r = s
                      /\ f \notin waiting[r] \cap Active(r)
                      /\ f \notin chunking[r] \cap sent[r]
    BY DEF OneSenderPerFile
  <2>1. f \in waiting[r] \cup Active(r) /\ f \in waiting[s] \cup Active(s) => r = s
    BY <1>1 DEF IndInv, PageAgrees
  <2>2. r \in Runs
    BY DEF OfPage
  <2> QED BY <1>1, <2>1, <2>2 DEF IndInv, RunsAgree
<1> QED BY <1>1, Invariance, PTL

\* A row with a document that is not a success is found only after a Stop.
THEOREM StuckOnlyByStop == Spec => []StuckNeedsStop
<1>1. IndInv => StuckNeedsStop
  BY DEF IndInv
<1> QED BY <1>1, Invariance, PTL

\* A page on which Upload was not pressed has no controller that is live: the
\* first one is made by the first run, and leaving a page aborts it.
FreshIsAborted ==
  /\ PageIsFresh => controller # "live"
  /\ controller = "none" => started = 0

LEMMA NextFresh ==
  ASSUME IndInv, FreshIsAborted, [Next]_vars
  PROVE  FreshIsAborted' /\ (PageIsFresh' => StartsNothing)
<1>1. /\ page \in Nat /\ started \in Nat /\ pageOf \in [Runs -> Pages]
      /\ controller \in {"none", "live", "aborted"}
      /\ chunking \in [Runs -> SUBSET Files]
      /\ \A r \in Runs : pageOf[r] <= page
  BY SMT DEF IndInv, TypeOK, RunsAgree, Pages
<1> USE DEF FreshIsAborted, PageIsFresh, StartsNothing
<1>2. CASE UNCHANGED <<page, controller, runVars>>
  BY <1>2 DEF runVars
<1>3. CASE StartUpload
  <2>1. PICK t \in First : Begin(t)
    BY <1>3 DEF StartUpload
  <2>2. /\ started' = started + 1 /\ started + 1 \in Runs /\ page' = page
        /\ pageOf' = [pageOf EXCEPT ![started + 1] = page] /\ controller' = "live"
    BY <1>1, <2>1, ConstantsAssumption, SMT DEF Begin, Runs
  <2>3. started' \in 1..started' /\ pageOf'[started'] = page'
    BY <1>1, <2>2, SMT
  <2>4. ~PageIsFresh'
    BY <1>1, <2>2, <2>3, SMT
  <2> QED BY <2>2, <2>4
<1>4. CASE StopUpload
  <2>1. controller' = "aborted" /\ chunking' = chunking
    BY <1>4 DEF StopUpload, runVars
  <2> QED BY <2>1
<1>5. CASE Unmount
  <2>1. controller' # "live" /\ (controller' = "none" => controller = "none")
        /\ started' = started /\ chunking' = chunking
    BY <1>5 DEF Unmount, runVars
  <2> QED BY <2>1
<1>6. ASSUME NEW r \in Runs, NEW f \in Files, Send(r, f) \/ Callback(r, f)
      PROVE  FreshIsAborted' /\ (PageIsFresh' => StartsNothing)
  <2>1. UNCHANGED <<page, controller, started, pageOf>>
    BY <1>6 DEF Send, Callback
  <2>2. CASE Send(r, f)
    BY <1>1, <2>1, <2>2, SMT DEF Send
  <2>3. CASE Callback(r, f)
    <3>1. f \in sent[r] /\ ~(r > started)
      BY <2>3 DEF Callback, IndInv, RunsAgree, Active
    <3>2. controller # "none"
      BY <1>1, <3>1, SMT DEF Runs
    <3>3. PageIsFresh => ~StartsNext(r)
      BY <1>1, <3>2 DEF StartsNext
    <3>4. ~StartsNext(r) => chunking' = chunking
      BY <2>3 DEF Callback, NoticesAbort, Completes, GoesOn, Finish
    <3> QED BY <2>1, <3>3, <3>4
  <2> QED BY <1>6, <2>2, <2>3
<1>7. CASE UserStep
  BY <1>2, <1>3, <1>4, <1>5, <1>7 DEF UserStep, AddFiles, Clear, Save, Leave, RemoveFile
<1>8. ASSUME NEW s \in saves, SaveSucceeds(s) \/ SaveFails(s)
      PROVE  FreshIsAborted' /\ (PageIsFresh' => StartsNothing)
  BY <1>2, <1>5, <1>8 DEF SaveSucceeds, SaveFails
<1>9. ASSUME NEW r \in Runs, NEW f \in Files, TaskStep(r, f)
      PROVE  FreshIsAborted' /\ (PageIsFresh' => StartsNothing)
  BY <1>2, <1>6, <1>9 DEF TaskStep, Chunk, Answer, UploadSucceeds, UploadIgnored, UploadFails
<1> QED BY <1>2, <1>7, <1>8, <1>9 DEF Next, vars, runVars

\* Once a page is left no earlier mount starts another file, for any number of
\* mounts and runs, until a run of the page that is shown replaces the
\* controller (document-upload.tsx:99-106, 175-187).
THEOREM LeavingIsObeyed == Spec => LeavingStopsUploads
<1>1. Init => FreshIsAborted
  BY DEF Init, FreshIsAborted
<1>2. IndInv /\ FreshIsAborted /\ [Next]_vars => FreshIsAborted'
  BY NextFresh
<1>3. IndInv /\ FreshIsAborted /\ [Next]_vars => [PageIsFresh' => StartsNothing]_vars
  BY NextFresh
<1> QED BY <1>1, <1>2, <1>3, Invariance, PTL DEF Spec, LeavingStopsUploads

=============================================================================
