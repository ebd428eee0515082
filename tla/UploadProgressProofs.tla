------------------------- MODULE UploadProgressProofs -------------------------
(***************************************************************************)
(* Theorems about UploadProgress, for every finite set of files, every     *)
(* number of loops and any number of runs.                                 *)
(***************************************************************************)
EXTENDS UploadProgress, FiniteSetTheorems, TLAPS

USE ConstantsAssumption

-----------------------------------------------------------------------------
(* Loops                                                                   *)

LEMMA FilesAreFinite ==
  ASSUME NEW S \in SUBSET Files
  PROVE  IsFiniteSet(S) /\ Cardinality(S) \in Nat /\ (Cardinality(S) = 0 <=> S = {})
  BY FS_Subset, FS_CardinalityType, FS_EmptySet

\* The loops that find a file: at least one, and no more than Concurrency.
LEMMA LoopsStarted ==
  ASSUME NEW n \in Nat \ {0}
  PROVE  Started(n) \in 1..Concurrency
<1> DEFINE half == (n + 1) \div 2
           Right(k) == /\ \A i \in 0..(k - 1) : 2 * i < n
                       /\ k = Concurrency \/ 2 * k >= n
<1>1. half \in Nat /\ 2 * half >= n /\ 2 * half <= n + 1
  BY SMT
<1> HIDE DEF half
<1>2. \E k \in 0..Concurrency : Right(k)
  <2>1. CASE half <= Concurrency
    BY <1>1, <2>1, SMT
  <2>2. CASE half > Concurrency
    BY <1>1, <2>2, SMT
  <2> QED BY <1>1, <2>1, <2>2, SMT
<1>3. Started(n) \in 0..Concurrency /\ Right(Started(n))
  BY <1>2, Zenon DEF Started
<1> QED BY <1>3, SMT

-----------------------------------------------------------------------------
(* Tasks and runs                                                          *)

\* The rows that an action of the page does not touch agree as before.
LEMMA RunsUntouched ==
  ASSUME RunsAgree, UNCHANGED runVars PROVE RunsAgree'
  BY DEF RunsAgree, runVars

LEMMA InitInv == Init => IndInv
<1> SUFFICES ASSUME Init PROVE IndInv
  OBVIOUS
<1>1. tasks \in [Files -> Task]
  BY SMT DEF Init, Task, TaskOf, Status
<1>2. TypeOK
  <2>1. /\ stage \in [Runs -> {"none", "timer", "running", "over"}]
        /\ queue \in [Runs -> SUBSET Files] /\ sending \in [Runs -> SUBSET Files]
        /\ loops \in [Runs -> Nat] /\ asked \in 0..MaxRuns
    BY SMT DEF Init
  <2> QED BY <1>1, <2>1, Zenon DEF Init, TypeOK
<1>3. \A r \in Runs : /\ stage[r] = "none" /\ r > asked /\ queue[r] = {} /\ sending[r] = {}
                      /\ loops[r] = 0
  BY SMT DEF Init, Runs
<1>4. RunsAgree
  BY <1>3, FS_EmptySet, SMT DEF RunsAgree
<1>5. PageAgrees
  BY <1>3, Zenon DEF Init, PageAgrees, Going, Shown
<1> QED BY <1>2, <1>4, <1>5 DEF IndInv

\* What is asked for is a run that waits for its timer.
LEMMA AskAgrees ==
  ASSUME TypeOK, RunsAgree, NEW files \in SUBSET Files, files # {}, Ask(files)
  PROVE  /\ RunsAgree' /\ asked' \in 0..MaxRuns
         /\ stage' \in [Runs -> {"none", "timer", "running", "over"}]
         /\ queue' \in [Runs -> SUBSET Files]
         /\ \E n \in Runs : /\ stage[n] = "none" /\ stage'[n] = "timer" /\ queue'[n] = files
                            /\ sending[n] = {}
                            /\ \A r \in Runs \ {n} : stage'[r] = stage[r] /\ queue'[r] = queue[r]
<1>1. PICK n \in Runs : n = asked + 1 /\ asked \in Nat
  BY SMT DEF Ask, TypeOK, Runs
<1>2. /\ asked' = n /\ stage' = [stage EXCEPT ![n] = "timer"]
      /\ queue' = [queue EXCEPT ![n] = files] /\ loops' = loops /\ sending' = sending
  BY <1>1 DEF Ask
<1>3. stage[n] = "none" /\ sending[n] = {} /\ n \in 0..MaxRuns
  BY <1>1, SMT DEF RunsAgree, Runs
<1>4. /\ stage' \in [Runs -> {"none", "timer", "running", "over"}]
      /\ queue' \in [Runs -> SUBSET Files]
      /\ stage'[n] = "timer" /\ queue'[n] = files
      /\ \A r \in Runs \ {n} : stage'[r] = stage[r] /\ queue'[r] = queue[r]
  BY <1>2, SMT DEF TypeOK
<1>5. RunsAgree'
  <2> SUFFICES ASSUME NEW r \in Runs
               PROVE  /\ stage'[r] = "none" <=> r > asked'
                      /\ stage'[r] = "none" => queue'[r] = {}
                      /\ stage'[r] = "timer" => queue'[r] # {}
                      /\ stage'[r] = "running" <=> sending'[r] # {}
                      /\ queue'[r] \cap sending'[r] = {}
                      /\ Cardinality(sending'[r]) = loops'[r] /\ loops'[r] <= Concurrency
    BY DEF RunsAgree
  <2>1. CASE r = n
    <3>1. ~(n > asked') /\ sending'[n] = {} /\ loops'[n] = loops[n]
      BY <1>1, <1>2, <1>3, SMT
    <3>2. Cardinality(sending[n]) = loops[n] /\ loops[n] <= Concurrency
      BY DEF RunsAgree
    <3> QED BY <2>1, <3>1, <3>2, <1>2, <1>4, Zenon
  <2>2. CASE r # n
    BY <2>2, <1>1, <1>2, <1>4, SMT DEF RunsAgree, Runs
  <2> QED BY <2>1, <2>2
<1> QED BY <1>2, <1>3, <1>4, <1>5

LEMMA SelectKeeps ==
  ASSUME IndInv, NEW files \in SUBSET Files, Select(files) PROVE IndInv'
<1>0. /\ place = "select" /\ files # {} /\ place' = "progress" /\ Ask(files)
      /\ UNCHANGED <<isUploading, isConfirming, abort, overlapped, loops, sending>>
      /\ asked = 0 /\ ~isUploading
  BY DEF Select, Ask, IndInv, PageAgrees
<1>1. /\ RunsAgree' /\ asked' \in 0..MaxRuns
      /\ stage' \in [Runs -> {"none", "timer", "running", "over"}]
      /\ queue' \in [Runs -> SUBSET Files]
  BY <1>0, AskAgrees DEF IndInv
<1>2. PICK n \in Runs : /\ stage[n] = "none" /\ stage'[n] = "timer" /\ queue'[n] = files
                        /\ sending[n] = {}
                        /\ \A r \in Runs \ {n} : stage'[r] = stage[r] /\ queue'[r] = queue[r]
  BY <1>0, AskAgrees DEF IndInv
<1>3. \A r \in Runs : stage[r] = "none"
  BY <1>0, SMT DEF IndInv, RunsAgree, Runs
<1>4. /\ tasks' \in [Files -> Task]
      /\ \A f \in Files : tasks'[f].status # "success"
  BY SMT DEF Select, Task, TaskOf, Status
<1>5. TypeOK'
  BY <1>0, <1>1, <1>4, Zenon DEF IndInv, TypeOK
<1>6. PageAgrees'
  <2>1. \A r \in Runs : r # n => ~(stage'[r] \in {"timer", "running"})
    BY <1>2, <1>3
  <2>2. \A r \in Runs : stage'[r] # "running"
    BY <1>2, <1>3
  <2>3. queue'[n] \cup sending'[n] \subseteq Files
    BY <1>0, <1>2
  <2> QED BY <1>0, <1>4, <2>1, <2>2, <2>3, Zenon DEF PageAgrees, Going, Shown
<1> QED BY <1>1, <1>5, <1>6 DEF IndInv

LEMMA RetryKeeps == IndInv /\ RetryFailed => IndInv'
<1> SUFFICES ASSUME IndInv, RetryFailed PROVE IndInv'
  OBVIOUS
<1> DEFINE files == Having("failed") \cup Having("pending")
<1>0. /\ Shown /\ files # {} /\ files \in SUBSET Files /\ Ask(files)
      /\ UNCHANGED <<isUploading, isConfirming, abort, place, loops, sending>>
      /\ overlapped' = (overlapped \/ \E r \in Runs : Going(r))
      /\ \A f \in files : tasks[f].status \in {"failed", "pending"}
  BY SMT DEF RetryFailed, Retry, Ask, Having
<1>1. /\ tasks \in [Files -> Task]
      /\ tasks' = [f \in Files |-> IF f \in Having("failed")
                                   THEN TaskOf("pending", tasks[f].doc) ELSE tasks[f]]
  BY DEF RetryFailed, Retry, IndInv, TypeOK
<1>2. /\ tasks' \in [Files -> Task]
      /\ \A f \in Files : tasks'[f].status = "success" => tasks[f].status = "success"
  BY <1>1, SMT DEF Task, TaskOf, Status
<1> HIDE DEF files
<1>3. /\ RunsAgree' /\ asked' \in 0..MaxRuns
      /\ stage' \in [Runs -> {"none", "timer", "running", "over"}]
      /\ queue' \in [Runs -> SUBSET Files]
  BY <1>0, AskAgrees DEF IndInv
<1>4. \E n \in Runs : /\ stage[n] = "none" /\ stage'[n] = "timer" /\ queue'[n] = files
                      /\ sending[n] = {}
                      /\ \A r \in Runs \ {n} : stage'[r] = stage[r] /\ queue'[r] = queue[r]
  BY <1>0, AskAgrees DEF IndInv
<1>5. PICK n \in Runs : /\ stage[n] = "none" /\ stage'[n] = "timer" /\ queue'[n] = files
                        /\ sending[n] = {}
                        /\ \A r \in Runs \ {n} : stage'[r] = stage[r] /\ queue'[r] = queue[r]
  BY <1>4
<1>6. overlapped' \in BOOLEAN
  BY <1>0
<1>7. TypeOK'
  BY <1>0, <1>2, <1>3, <1>6, Zenon DEF IndInv, TypeOK
<1>8. PageAgrees'
  <2>1. place' # "select"
    BY <1>0 DEF Shown
  <2> SUFFICES ASSUME ~overlapped'
               PROVE  /\ \A r, s \in Runs : Going(r)' /\ Going(s)' => r = s
                      /\ Shown' => (isUploading' <=> \E r \in Runs : stage'[r] = "running")
                      /\ Shown' => \A r \in Runs : Going(r)' =>
                           \A f \in queue'[r] \cup sending'[r] : tasks'[f].status # "success"
    BY <2>1 DEF PageAgrees
  <2>2. ~overlapped /\ \A r \in Runs : ~Going(r)
    BY <1>0
  <2>3. \A r \in Runs : r # n => ~Going(r)'
    BY <1>5, <2>2 DEF Going
  <2>4. ~isUploading
    BY <1>0, <2>2 DEF IndInv, PageAgrees, Going
  <2>5. \A r \in Runs : stage'[r] # "running"
    BY <1>5, <2>3 DEF Going
  <2>6. \A f \in queue'[n] \cup sending'[n] : tasks'[f].status # "success"
    BY <1>0, <1>2, <1>5
  <2> QED BY <1>0, <2>3, <2>4, <2>5, <2>6
<1> QED BY <1>3, <1>7, <1>8 DEF IndInv

\* Steps that leave tasks, runs and the flag of the upload alone.
LEMMA PageKeeps ==
  ASSUME IndInv, place' \in {place, "left"}, isConfirming' \in BOOLEAN, abort' \in BOOLEAN,
         UNCHANGED <<tasks, isUploading, overlapped, runVars>>
  PROVE  IndInv'
<1>1. UNCHANGED <<tasks, isUploading, overlapped, asked, stage, queue, loops, sending>>
  BY DEF runVars
<1>2. TypeOK'
  BY <1>1, Zenon DEF IndInv, TypeOK
<1>3. RunsAgree'
  BY RunsUntouched DEF IndInv
<1>4. PageAgrees'
  <2>1. place' = "select" => place = "select"
    BY SMT
  <2>2. place' = "progress" => place = "progress"
    BY SMT
  <2> QED BY <1>1, <2>1, <2>2, SMT DEF IndInv, PageAgrees, Going, Shown
<1> QED BY <1>2, <1>3, <1>4 DEF IndInv

\* The timer fires: the loops take their first files.
LEMMA StartUploadKeeps ==
  ASSUME IndInv, NEW r \in Runs, StartUpload(r) PROVE IndInv'
<1>0. /\ stage[r] = "timer" /\ abort' = FALSE
      /\ stage' = [stage EXCEPT ![r] = "running"]
      /\ isUploading' = (isUploading \/ Shown)
      /\ UNCHANGED <<isConfirming, place, overlapped, asked>>
      /\ queue[r] # {} /\ sending[r] = {} /\ r <= asked
  <2>1. stage[r] # "none" /\ stage[r] # "running"
    BY SMT DEF StartUpload
  <2>2. /\ stage[r] = "timer" /\ abort' = FALSE
        /\ stage' = [stage EXCEPT ![r] = "running"]
        /\ isUploading' = (isUploading \/ Shown)
        /\ UNCHANGED <<isConfirming, place, overlapped, asked>>
    BY DEF StartUpload
  <2>3. queue[r] # {} /\ sending[r] = {}
    BY <2>1, <2>2 DEF IndInv, RunsAgree
  <2>4. r <= asked
    BY <2>1, SMT DEF IndInv, RunsAgree, TypeOK, Runs
  <2> QED BY <2>2, <2>3, <2>4
<1>1. PICK first \in SUBSET queue[r] :
        /\ Cardinality(first) = Started(Cardinality(queue[r]))
        /\ queue' = [queue EXCEPT ![r] = queue[r] \ first]
        /\ sending' = [sending EXCEPT ![r] = first]
        /\ loops' = [loops EXCEPT ![r] = Cardinality(first)]
        /\ tasks' = IF Shown
                    THEN [f \in Files |-> IF f \in first
                            THEN TaskOf("uploading", tasks[f].doc) ELSE tasks[f]]
                    ELSE tasks
  BY DEF StartUpload
<1>2. queue[r] \in SUBSET Files /\ first \in SUBSET Files
  BY DEF IndInv, TypeOK
<1>3. Cardinality(first) \in 1..Concurrency /\ first # {}
  <2>1. Cardinality(queue[r]) \in Nat \ {0}
    BY <1>0, <1>2, FilesAreFinite
  <2>2. Cardinality(first) \in 1..Concurrency
    BY <1>1, <2>1, LoopsStarted
  <2> QED BY <2>2, FS_EmptySet, SMT
<1>4. /\ tasks' \in [Files -> Task]
      /\ \A f \in Files : tasks'[f].status = "success" => tasks[f].status = "success"
  <2>1. tasks \in [Files -> Task]
    BY DEF IndInv, TypeOK
  <2> QED BY <1>1, <2>1, SMT DEF Task, TaskOf, Status
<1>5. /\ stage' \in [Runs -> {"none", "timer", "running", "over"}]
      /\ queue' \in [Runs -> SUBSET Files] /\ sending' \in [Runs -> SUBSET Files]
      /\ loops' \in [Runs -> Nat]
      /\ stage'[r] = "running" /\ queue'[r] = queue[r] \ first /\ sending'[r] = first
      /\ loops'[r] = Cardinality(first)
      /\ \A q \in Runs \ {r} : /\ stage'[q] = stage[q] /\ queue'[q] = queue[q]
                              /\ sending'[q] = sending[q] /\ loops'[q] = loops[q]
  BY <1>0, <1>1, <1>2, <1>3, SMT DEF IndInv, TypeOK
<1>6. TypeOK'
  <2>1. isUploading' \in BOOLEAN /\ abort' \in BOOLEAN
    BY <1>0
  <2> QED BY <1>0, <1>4, <1>5, <2>1, Zenon DEF IndInv, TypeOK
<1>7. RunsAgree'
  <2> SUFFICES ASSUME NEW q \in Runs
               PROVE  /\ stage'[q] = "none" <=> q > asked'
                      /\ stage'[q] = "none" => queue'[q] = {}
                      /\ stage'[q] = "timer" => queue'[q] # {}
                      /\ stage'[q] = "running" <=> sending'[q] # {}
                      /\ queue'[q] \cap sending'[q] = {}
                      /\ Cardinality(sending'[q]) = loops'[q] /\ loops'[q] <= Concurrency
    BY DEF RunsAgree
  <2>1. CASE q # r
    BY <2>1, <1>0, <1>5 DEF IndInv, RunsAgree
  <2>2. CASE q = r
    <3>1. ~(r > asked') /\ loops'[r] <= Concurrency
      BY <1>0, <1>3, <1>5, SMT DEF IndInv, TypeOK, Runs
    <3>2. queue'[r] \cap sending'[r] = {}
      BY <1>5
    <3> QED BY <2>2, <3>1, <3>2, <1>3, <1>5
  <2> QED BY <2>1, <2>2
<1>8. PageAgrees'
  <2>1. place # "select"
    BY <1>0, SMT DEF IndInv, PageAgrees, Runs
  <2>2. \A q \in Runs : Going(q)' <=> Going(q)
    BY <1>0, <1>5 DEF Going
  <2>3. Shown' <=> Shown
    BY <1>0 DEF Shown
  <2>4. \A q \in Runs : queue'[q] \cup sending'[q] \subseteq queue[q] \cup sending[q]
    BY <1>1, <1>5
  <2>5. \A q \in Runs : queue[q] \cup sending[q] \subseteq Files
    BY DEF IndInv, TypeOK
  <2> SUFFICES ASSUME ~overlapped
               PROVE  /\ \A p, q \in Runs : Going(p)' /\ Going(q)' => p = q
                      /\ Shown' => (isUploading' <=> \E q \in Runs : stage'[q] = "running")
                      /\ Shown' => \A q \in Runs : Going(q)' =>
                           \A f \in queue'[q] \cup sending'[q] : tasks'[f].status # "success"
    BY <1>0, <2>1 DEF PageAgrees
  <2>6. \A p, q \in Runs : Going(p)' /\ Going(q)' => p = q
    BY <2>2 DEF IndInv, PageAgrees
  <2>7. Shown' => (isUploading' <=> \E q \in Runs : stage'[q] = "running")
    BY <1>0, <1>5, <2>3
  <2>8. ASSUME Shown, NEW q \in Runs, Going(q), NEW f \in queue'[q] \cup sending'[q]
        PROVE  tasks'[f].status # "success"
    <3>1. f \in queue[q] \cup sending[q] /\ f \in Files
      BY <2>4, <2>5, <2>8
    <3> QED BY <1>4, <2>8, <3>1 DEF IndInv, PageAgrees
  <2> QED BY <2>2, <2>3, <2>6, <2>7, <2>8
<1> QED BY <1>6, <1>7, <1>8 DEF IndInv

-----------------------------------------------------------------------------
(* Answers                                                                 *)

\* What an answer leaves of its run: the file is gone, another one may have
\* been taken from the queue.
LEMMA AnswerLeaves ==
  ASSUME TypeOK, RunsAgree, NEW r \in Runs, NEW f \in Files,
         NEW t \in Task, t.status \in {"success", "failed", "uploading"}, Answered(r, f, t)
  PROVE  /\ TypeOK' /\ RunsAgree'
         /\ stage[r] = "running" /\ Going(r) /\ f \in sending[r]
         /\ \A q \in Runs \ {r} : /\ stage'[q] = stage[q] /\ queue'[q] = queue[q]
                                 /\ sending'[q] = sending[q]
         /\ stage'[r] \in {"running", "over"}
         /\ queue'[r] \cup sending'[r] \subseteq (queue[r] \cup sending[r]) \ {f}
         /\ \A g \in Files \ {f} :
              /\ tasks'[g].status = "success" => tasks[g].status = "success"
              /\ tasks[g].status = "success" => tasks'[g].status = "success" \/ g \in queue[r]
         /\ isUploading' <=> isUploading /\ (stage'[r] = "running" \/ ~Shown)
<1>0. /\ f \in sending[r] /\ stage[r] = "running" /\ Going(r)
      /\ UNCHANGED <<isConfirming, abort, place, overlapped, asked>>
      /\ queue[r] \cap sending[r] = {} /\ f \notin queue[r]
      /\ sending[r] \in SUBSET Files /\ queue[r] \in SUBSET Files
      /\ Cardinality(sending[r]) = loops[r] /\ loops[r] <= Concurrency /\ loops[r] \in Nat
      /\ ~(r > asked)
  <2>1. f \in sending[r] /\ UNCHANGED <<isConfirming, abort, place, overlapped, asked>>
    BY DEF Answered
  <2>2. stage[r] = "running"
    BY <2>1 DEF RunsAgree
  <2> QED BY <2>1, <2>2, SMT DEF RunsAgree, TypeOK, Going
<1>r. /\ IsFiniteSet(sending[r] \ {f}) /\ Cardinality(sending[r] \ {f}) = loops[r] - 1
      /\ loops[r] - 1 \in Nat /\ (loops[r] = 1 <=> sending[r] \ {f} = {})
  <2>1. IsFiniteSet(sending[r] \ {f}) /\ Cardinality(sending[r] \ {f}) = loops[r] - 1
    BY <1>0, FilesAreFinite, FS_RemoveElement
  <2>2. Cardinality(sending[r] \ {f}) \in Nat
        /\ (Cardinality(sending[r] \ {f}) = 0 <=> sending[r] \ {f} = {})
    BY <2>1, FS_CardinalityType, FS_EmptySet
  <2> QED BY <1>0, <2>1, <2>2, SMT
<1>t. tasks \in [Files -> Task]
  BY DEF TypeOK
<1>1. CASE TakeNext(r, f, t)
  <2>1. PICK g \in queue[r] : Takes(r, f, t, g) /\ queue' = [queue EXCEPT ![r] = queue[r] \ {g}]
    BY <1>1 DEF TakeNext
  <2>2. /\ sending' = [sending EXCEPT ![r] = (sending[r] \ {f}) \cup {g}]
        /\ UNCHANGED <<isUploading, stage, loops>>
        /\ g \in Files /\ g # f /\ g \notin sending[r]
    BY <1>0, <2>1 DEF Takes
  <2>3. /\ queue' \in [Runs -> SUBSET Files] /\ sending' \in [Runs -> SUBSET Files]
        /\ queue'[r] = queue[r] \ {g} /\ sending'[r] = (sending[r] \ {f}) \cup {g}
        /\ \A q \in Runs \ {r} : queue'[q] = queue[q] /\ sending'[q] = sending[q]
    BY <1>0, <2>1, <2>2, SMT DEF TypeOK
  <2>4. Cardinality(sending'[r]) = loops[r]
    <3>1. g \notin sending[r] \ {f}
      BY <2>2
    <3>2. Cardinality((sending[r] \ {f}) \cup {g}) = (loops[r] - 1) + 1
      BY <1>r, <3>1, FS_AddElement
    <3> QED BY <1>0, <2>3, <3>2, SMT
  <2>5. tasks' = IF Shown
                 THEN [tasks EXCEPT ![f] = t, ![g] = TaskOf("uploading", tasks[g].doc)]
                 ELSE tasks
    BY <2>1 DEF Takes
  <2>6. /\ tasks' \in [Files -> Task]
        /\ Shown => tasks'[g].status = "uploading"
        /\ \A h \in Files \ {f, g} : tasks'[h] = tasks[h]
        /\ ~Shown => tasks' = tasks
    <3>1. TaskOf("uploading", tasks[g].doc) \in Task
          /\ TaskOf("uploading", tasks[g].doc).status = "uploading"
      BY <1>t, <2>2, SMT DEF Task, TaskOf, Status
    <3> QED BY <1>t, <2>2, <2>5, <3>1, Zenon
  <2>7. TypeOK'
    BY <1>0, <2>2, <2>3, <2>6, Zenon DEF TypeOK
  <2>8. RunsAgree'
    <3> SUFFICES ASSUME NEW q \in Runs
                 PROVE  /\ stage'[q] = "none" <=> q > asked'
                        /\ stage'[q] = "none" => queue'[q] = {}
                        /\ stage'[q] = "timer" => queue'[q] # {}
                        /\ stage'[q] = "running" <=> sending'[q] # {}
                        /\ queue'[q] \cap sending'[q] = {}
                        /\ Cardinality(sending'[q]) = loops'[q] /\ loops'[q] <= Concurrency
      BY DEF RunsAgree
    <3>1. CASE q # r
      BY <3>1, <1>0, <2>2, <2>3 DEF RunsAgree
    <3>2. CASE q = r
      <4>1. sending'[r] # {} /\ queue'[r] \cap sending'[r] = {}
        BY <1>0, <2>2, <2>3
      <4>2. stage'[r] = "running"
        BY <1>0, <2>2
      <4> QED BY <3>2, <4>1, <4>2, <1>0, <2>2, <2>4
    <3> QED BY <3>1, <3>2
  <2>9. queue'[r] \cup sending'[r] \subseteq (queue[r] \cup sending[r]) \ {f}
    BY <1>0, <2>2, <2>3
  <2>10. \A h \in Files \ {f} :
            /\ tasks'[h].status = "success" => tasks[h].status = "success"
            /\ tasks[h].status = "success" => tasks'[h].status = "success" \/ h \in queue[r]
    <3> SUFFICES ASSUME NEW h \in Files \ {f}
                 PROVE  /\ tasks'[h].status = "success" => tasks[h].status = "success"
                        /\ tasks[h].status = "success"
                             => tasks'[h].status = "success" \/ h \in queue[r]
      OBVIOUS
    <3>1. CASE h = g /\ Shown
      BY <2>1, <2>6, <3>1, Zenon
    <3>2. CASE ~(h = g /\ Shown)
      BY <2>6, <3>2
    <3> QED BY <3>1, <3>2
  <2> QED BY <1>0, <2>2, <2>3, <2>6, <2>7, <2>8, <2>9, <2>10
<1>2. CASE Return(r, f, t)
  <2>1. /\ sending' = [sending EXCEPT ![r] = sending[r] \ {f}]
        /\ loops' = [loops EXCEPT ![r] = loops[r] - 1]
        /\ tasks' = IF Shown THEN [tasks EXCEPT ![f] = t] ELSE tasks
        /\ stage' = [stage EXCEPT ![r] = IF loops[r] = 1 THEN "over" ELSE "running"]
        /\ isUploading' = (isUploading /\ ~(loops[r] = 1 /\ Shown))
        /\ queue' = queue
    BY <1>2 DEF Return, Returns
  <2>2. /\ stage' \in [Runs -> {"none", "timer", "running", "over"}]
        /\ loops' \in [Runs -> Nat] /\ sending' \in [Runs -> SUBSET Files]
        /\ sending'[r] = sending[r] \ {f} /\ loops'[r] = loops[r] - 1
        /\ stage'[r] = IF loops[r] = 1 THEN "over" ELSE "running"
        /\ \A q \in Runs \ {r} : /\ stage'[q] = stage[q] /\ loops'[q] = loops[q]
                                /\ sending'[q] = sending[q]
    BY <1>r, <2>1, SMT DEF TypeOK
  <2>3. /\ tasks' \in [Files -> Task]
        /\ \A h \in Files \ {f} : tasks'[h] = tasks[h]
    BY <1>t, <2>1, Zenon
  <2>4. TypeOK'
    <3>1. isUploading' \in BOOLEAN
      BY <2>1
    <3> QED BY <1>0, <2>1, <2>2, <2>3, <3>1, Zenon DEF TypeOK
  <2>5. RunsAgree'
    <3> SUFFICES ASSUME NEW q \in Runs
                 PROVE  /\ stage'[q] = "none" <=> q > asked'
                        /\ stage'[q] = "none" => queue'[q] = {}
                        /\ stage'[q] = "timer" => queue'[q] # {}
                        /\ stage'[q] = "running" <=> sending'[q] # {}
                        /\ queue'[q] \cap sending'[q] = {}
                        /\ Cardinality(sending'[q]) = loops'[q] /\ loops'[q] <= Concurrency
      BY DEF RunsAgree
    <3>1. CASE q # r
      BY <3>1, <1>0, <2>1, <2>2 DEF RunsAgree
    <3>2. CASE q = r
      <4>1. queue'[r] \cap sending'[r] = {}
        BY <1>0, <2>1, <2>2
      <4>2. loops'[r] <= Concurrency
        BY <1>0, <2>2, SMT
      <4> QED BY <3>2, <4>1, <4>2, <1>0, <1>r, <2>2
    <3> QED BY <3>1, <3>2
  <2>6. queue'[r] \cup sending'[r] \subseteq (queue[r] \cup sending[r]) \ {f}
    BY <1>0, <2>1, <2>2
  <2>8. isUploading' <=> isUploading /\ (stage'[r] = "running" \/ ~Shown)
    BY <2>1, <2>2
  <2> QED BY <1>0, <2>1, <2>2, <2>3, <2>4, <2>5, <2>6, <2>8
<1> QED BY <1>1, <1>2 DEF Answered

LEMMA AnswerKeeps ==
  ASSUME IndInv, NEW r \in Runs, NEW f \in Files,
         NEW t \in Task, t.status \in {"success", "failed", "uploading"}, Answered(r, f, t)
  PROVE  IndInv'
<1>1. /\ TypeOK' /\ RunsAgree'
      /\ stage[r] = "running" /\ Going(r) /\ f \in sending[r]
      /\ \A q \in Runs \ {r} : /\ stage'[q] = stage[q] /\ queue'[q] = queue[q]
                              /\ sending'[q] = sending[q]
      /\ stage'[r] \in {"running", "over"}
      /\ queue'[r] \cup sending'[r] \subseteq (queue[r] \cup sending[r]) \ {f}
      /\ \A g \in Files \ {f} : tasks'[g].status = "success" => tasks[g].status = "success"
      /\ isUploading' <=> isUploading /\ (stage'[r] = "running" \/ ~Shown)
  BY AnswerLeaves DEF IndInv
<1>2. UNCHANGED <<place, overlapped, asked>>
  BY DEF Answered
<1>3. Shown' <=> Shown
  BY <1>2 DEF Shown
<1>4. place # "select"
  <2>1. asked # 0
    BY <1>1, SMT DEF IndInv, TypeOK, RunsAgree, Runs
  <2> QED BY <2>1 DEF IndInv, PageAgrees
<1>5. PageAgrees'
  <2> SUFFICES ASSUME ~overlapped
               PROVE  /\ \A p, q \in Runs : Going(p)' /\ Going(q)' => p = q
                      /\ Shown' => (isUploading' <=> \E q \in Runs : stage'[q] = "running")
                      /\ Shown' => \A q \in Runs : Going(q)' =>
                           \A g \in queue'[q] \cup sending'[q] : tasks'[g].status # "success"
    BY <1>2, <1>4 DEF PageAgrees
  <2>1. \A q \in Runs : q # r => ~Going(q)
    BY <1>1 DEF IndInv, PageAgrees
  <2>2. \A q \in Runs : q # r => ~Going(q)'
    BY <1>1, <2>1 DEF Going
  <2>3. Shown' => (isUploading' <=> \E q \in Runs : stage'[q] = "running")
    <3>1. \A q \in Runs : stage'[q] = "running" => q = r
      BY <2>2 DEF Going
    <3>2. Shown => isUploading
      BY <1>1 DEF IndInv, PageAgrees
    <3> QED BY <1>1, <1>3, <3>1, <3>2
  <2>4. ASSUME Shown, NEW g \in queue'[r] \cup sending'[r] PROVE tasks'[g].status # "success"
    <3>1. g \in queue[r] \cup sending[r] /\ g # f
      BY <1>1, <2>4
    <3>2. tasks[g].status # "success"
      BY <1>1, <2>4, <3>1 DEF IndInv, PageAgrees
    <3>3. g \in Files
      BY <3>1 DEF IndInv, TypeOK
    <3> QED BY <1>1, <3>1, <3>2, <3>3
  <2> QED BY <1>3, <2>2, <2>3, <2>4
<1> QED BY <1>1, <1>5 DEF IndInv

-----------------------------------------------------------------------------
(* Theorems                                                                *)

\* Whatever becomes of a request is one of three answers to its loop.
LEMMA AnswerOf ==
  ASSUME tasks \in [Files -> Task], NEW r \in Runs, NEW f \in Files, RequestEnds(r, f)
  PROVE  \E t \in Task : t.status \in {"success", "failed", "uploading"} /\ Answered(r, f, t)
<1>1. \A s \in {"success", "failed", "uploading"} : \A d \in BOOLEAN :
        TaskOf(s, d) \in Task /\ TaskOf(s, d).status = s
  BY SMT DEF Task, TaskOf, Status
<1>2. tasks[f].doc \in BOOLEAN
  BY SMT DEF Task
<1> QED BY <1>1, <1>2 DEF RequestEnds, UploadSucceeds, UploadFails, SendRaises

LEMMA NextKeeps == IndInv /\ [Next]_vars => IndInv'
<1> SUFFICES ASSUME IndInv, [Next]_vars PROVE IndInv'
  OBVIOUS
<1>0. /\ isConfirming \in BOOLEAN /\ abort \in BOOLEAN
      /\ UNCHANGED vars => UNCHANGED <<tasks, isUploading, overlapped, runVars>>
  BY DEF IndInv, TypeOK, vars, runVars
<1>1. CASE UserStep
  BY <1>0, <1>1, SelectKeeps, RetryKeeps, PageKeeps DEF UserStep, StopUpload, Confirm, Leave
<1>2. CASE ConfirmSucceeds \/ ConfirmFails
  BY <1>0, <1>2, PageKeeps DEF ConfirmSucceeds, ConfirmFails
<1>3. ASSUME NEW r \in Runs, RunStep(r) PROVE IndInv'
  <2>1. ASSUME NEW f \in Files, RequestEnds(r, f) PROVE IndInv'
    <3>1. tasks \in [Files -> Task]
      BY DEF IndInv, TypeOK
    <3> QED BY <2>1, <3>1, AnswerOf, AnswerKeeps
  <2> QED BY <1>3, <2>1, StartUploadKeeps DEF RunStep
<1>4. CASE UNCHANGED vars
  BY <1>0, <1>4, PageKeeps DEF vars
<1> QED BY <1>1, <1>2, <1>3, <1>4 DEF Next

\* The invariant behind the others: the page and its run agree on what is
\* left to do, until Retry lets two runs overlap.
THEOREM Invariance == Spec => []IndInv
<1> QED BY InitInv, NextKeeps, PTL DEF Spec

\* Types; the loops of a run are counted by the files it sends.
THEOREM TypeCorrect == Spec => []TypeOK
<1>1. IndInv => TypeOK
  BY DEF IndInv
<1> QED BY <1>1, Invariance, PTL

\* Stop is offered exactly while a run goes on, unless runs overlap.
THEOREM FlagFollowsRuns == Spec => []BusyWhileRunning
<1>1. IndInv => BusyWhileRunning
  <2> SUFFICES ASSUME IndInv, Shown, ~overlapped
               PROVE  isUploading <=> \E r \in Runs : stage[r] = "running"
    BY DEF BusyWhileRunning
  <2> QED BY DEF IndInv, PageAgrees
<1> QED BY <1>1, Invariance, PTL

\* No file is in the hands of two loops, unless runs overlap.
THEOREM OneLoop == Spec => []OneLoopPerFile
<1>1. ASSUME IndInv PROVE OneLoopPerFile
  <2> SUFFICES ASSUME ~overlapped, NEW r \in Runs, NEW s \in Runs, NEW f \in Files,
                      stage[r] # "over", stage[s] # "over",
                      f \in queue[r] \cup sending[r], f \in queue[s] \cup sending[s]
               PROVE  r = s /\ f \notin queue[r] \cap sending[r]
    BY DEF OneLoopPerFile
  <2>1. ASSUME NEW q \in Runs, stage[q] # "over", f \in queue[q] \cup sending[q]
        PROVE  Going(q)
    <3>1. stage[q] # "none"
      BY <1>1, <2>1 DEF IndInv, RunsAgree
    <3> QED BY <1>1, <2>1, <3>1 DEF IndInv, TypeOK, Going
  <2> QED BY <1>1, <2>1 DEF IndInv, RunsAgree, PageAgrees
<1> QED BY <1>1, Invariance, PTL

\* Never more requests than Concurrency, unless runs overlap.
THEOREM Bounded == Spec => []WithinConcurrency
<1>1. ASSUME IndInv PROVE WithinConcurrency
  <2>1. \A r \in Runs : Cardinality(sending[r]) = loops[r]
    BY <1>1 DEF IndInv, RunsAgree
  <2>2. ASSUME ~overlapped
        PROVE  Cardinality(UNION {sending[r] : r \in Runs}) <= Concurrency
    <3>1. CASE \A r \in Runs : sending[r] = {}
      <4>1. UNION {sending[r] : r \in Runs} = {}
        BY <3>1
      <4> QED BY <4>1, FS_EmptySet, SMT
    <3>2. CASE \E r \in Runs : sending[r] # {}
      <4>1. PICK r \in Runs : sending[r] # {}
        BY <3>2
      <4>2. \A q \in Runs : q # r => sending[q] = {}
        BY <1>1, <2>2, <4>1 DEF IndInv, RunsAgree, PageAgrees, Going
      <4>3. UNION {sending[q] : q \in Runs} = sending[r]
        BY <4>2
      <4> QED BY <1>1, <4>3 DEF IndInv, RunsAgree
    <3> QED BY <3>1, <3>2
  <2> QED BY <2>1, <2>2 DEF WithinConcurrency
<1> QED BY <1>1, Invariance, PTL

\* A file that is uploaded stays so, unless runs overlap.
THEOREM SuccessStays == Spec => SuccessIsKept
<1>1. ASSUME IndInv, [Next]_vars, Shown, ~overlapped' PROVE KeepsSuccess
  <2>0. tasks \in [Files -> Task]
    BY <1>1 DEF IndInv, TypeOK
  <2>1. CASE StopUpload \/ Confirm \/ Leave \/ ConfirmSucceeds \/ ConfirmFails \/ UNCHANGED vars
    <3>1. tasks' = tasks
      BY <2>1 DEF StopUpload, Confirm, Leave, ConfirmSucceeds, ConfirmFails, vars
    <3> QED BY <3>1 DEF KeepsSuccess, Having
  <2>2. ASSUME NEW files \in SUBSET Files PROVE ~Select(files)
    BY <1>1, SMT DEF Select, Shown
  <2>3. CASE RetryFailed
    <3>1. tasks' = [f \in Files |-> IF f \in Having("failed")
                                   THEN TaskOf("pending", tasks[f].doc) ELSE tasks[f]]
      BY <2>3 DEF RetryFailed, Retry
    <3> QED BY <2>0, <3>1, SMT DEF KeepsSuccess, Having
  <2>4. ASSUME NEW r \in Runs, RunStep(r) PROVE KeepsSuccess
    <3>0. ~overlapped
      BY <1>1, <2>4 DEF RunStep, StartUpload, RequestEnds, UploadSucceeds, UploadFails,
                        SendRaises, Answered
    <3>1. CASE StartUpload(r)
      <4>1. PICK first \in SUBSET queue[r] :
              tasks' = IF Shown
                       THEN [f \in Files |-> IF f \in first
                               THEN TaskOf("uploading", tasks[f].doc) ELSE tasks[f]]
                       ELSE tasks
        BY <3>1 DEF StartUpload
      <4>2. \A f \in first : tasks[f].status # "success"
        BY <1>1, <3>0, <3>1 DEF StartUpload, IndInv, PageAgrees, Going
      <4> QED BY <2>0, <4>1, <4>2, <1>1, SMT DEF KeepsSuccess, Having
    <3>2. ASSUME NEW f \in Files, NEW t \in Task, t.status \in {"success", "failed", "uploading"},
                 Answered(r, f, t)
          PROVE  KeepsSuccess
      <4>1. /\ Going(r) /\ f \in sending[r]
            /\ \A g \in Files \ {f} :
                 tasks[g].status = "success" => tasks'[g].status = "success" \/ g \in queue[r]
        BY <1>1, <3>2, AnswerLeaves DEF IndInv
      <4>2. \A g \in queue[r] \cup sending[r] : tasks[g].status # "success"
        BY <1>1, <3>0, <4>1 DEF IndInv, PageAgrees
      <4> QED BY <4>1, <4>2 DEF KeepsSuccess, Having
    <3>3. ASSUME NEW f \in Files, RequestEnds(r, f) PROVE KeepsSuccess
      BY <2>0, <3>2, <3>3, AnswerOf
    <3> QED BY <2>4, <3>1, <3>3 DEF RunStep
  <2> QED BY <1>1, <2>1, <2>2, <2>3, <2>4 DEF Next, UserStep
<1>2. IndInv /\ [Next]_vars => [Shown /\ ~overlapped' => KeepsSuccess]_vars
  BY <1>1
<1> QED BY <1>2, Invariance, PTL DEF Spec, SuccessIsKept

=============================================================================
