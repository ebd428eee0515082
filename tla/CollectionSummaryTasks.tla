----------------------- MODULE CollectionSummaryTasks -----------------------
(***************************************************************************)
(* Theorems about the tasks and the requests of CollectionSummary:         *)
(*   - a summary is generated by one task at a time, however requests and  *)
(*     rounds overlap;                                                     *)
(*   - a collection has a summary row if and only if its config asks for   *)
(*     one, unless a request acted on a config that had been replaced.     *)
(* The first needs the absence of some faults, which it names.             *)
(***************************************************************************)
EXTENDS CollectionSummaryProofs, CollectionSummaryHistory

-----------------------------------------------------------------------------
(* One task per summary: the invariant                                     *)

\* Collection c's row, a round's memory of it, or a task of it has the id i.
Names(c, i) ==
    \/ row[c].id = i
    \/ \E t \in tasks : t.coll = c /\ t.id = i
    \/ \E r \in Reconcilers : rec[r].seen[c].id = i

\* The id of a summary is never one of another collection.
IdsApart ==
    \A c, d \in Collections : \A i \in Ids : Names(c, i) /\ Names(d, i) => c = d

ClaimedIsHeld ==
    \A r \in Reconcilers :
      rec[r].pc \in {"claimed", "sent"} => rec[r].cur \in rec[r].held

\* The task works on the row the collection has now, in whichever version.
Current(t) == row[t.coll].id = t.id

Sent(c) == \E r \in Reconcilers : rec[r].pc = "sent" /\ rec[r].cur = c

\* As long as a task is about the row, the row is claimed, or the round that
\* sent the task is about to commit the claim.
CurrentIsClaimed ==
    \A t \in tasks :
      Current(t) => row[t.coll].status = "GENERATING" \/ Sent(t.coll)

WorkInv ==
    /\ IdsApart /\ ClaimedIsHeld /\ CurrentIsClaimed /\ OneTaskPerSummary

\* A round that dies after sending, or a repeated delivery, gives one summary
\* a second task.
NoRepetition == FaultKinds \cap {"round", "redeliver"} = {}

LEMMA InitWork == Init => WorkInv
  <1> SUFFICES ASSUME Init PROVE WorkInv
    OBVIOUS
  <1>1. ASSUME NEW c \in Collections, NEW i \in Ids
        PROVE  ~Names(c, i)
    <2>1. row[c].id = "NONE" /\ tasks = {}
      BY DEF Init, NoRow
    <2>2. \A r \in Reconcilers : rec[r].seen[c].id = "NONE"
      BY DEF Init, IdleRound, NotSeen
    <2>3. QED
      BY <2>1, <2>2, ConstantsAssumption DEF Names
  <1>2. IdsApart
    BY <1>1 DEF IdsApart
  <1>3. ClaimedIsHeld /\ CurrentIsClaimed /\ OneTaskPerSummary
    BY DEF Init, ClaimedIsHeld, CurrentIsClaimed, OneTaskPerSummary, IdleRound
  <1>4. QED
    BY <1>2, <1>3 DEF WorkInv

\* An id that is free names nothing.
LEMMA FreshId ==
  ASSUME NEW i \in FreeIds
  PROVE  /\ \A c \in Collections : row[c].id # i
         /\ \A t \in tasks : t.id # i
         /\ \A r \in Reconcilers : \A c \in Collections : rec[r].seen[c].id # i
  <1>1. /\ i \notin {row[c].id : c \in Collections}
        /\ i \notin {t.id : t \in tasks}
        /\ i \notin UNION {{rec[r].seen[c].id : c \in Collections} : r \in Reconcilers}
    BY DEF FreeIds
  <1>2. ASSUME NEW r \in Reconcilers, NEW c \in Collections
        PROVE  rec[r].seen[c].id # i
    <2>1. rec[r].seen[c].id \in {rec[r].seen[d].id : d \in Collections}
      OBVIOUS
    <2>2. QED
      BY <1>1, <2>1
  <1>3. QED
    BY <1>1, <1>2

\* What the proofs use of the types.
LEMMA Typed ==
  ASSUME TypeOK
  PROVE  /\ row \in [Collections -> Row \cup {NoRow}]
         /\ rec \in [Reconcilers -> Round]
         /\ \A t \in tasks : t.coll \in Collections /\ t.id \in Ids
                             /\ t.version \in Nat \ {0}
         /\ \A q \in Clients : ~Idle(q) =>
              svc[q].coll \in Collections /\ svc[q].enabled \in BOOLEAN
  BY DEF TypeOK, Task, Idle, Request

-----------------------------------------------------------------------------
(* Requests                                                                *)

\* No new names, and rows that stay keep their status.
LEMMA WorkKept ==
  ASSUME WorkInv, TypeOK, tasks' = tasks, rec' = rec,
         \A c \in Collections : row'[c].id \in Ids =>
           row'[c].id = row[c].id /\ row'[c].status = row[c].status
  PROVE  WorkInv'
  <1>1. \A t \in tasks : t.coll \in Collections /\ t.id \in Ids
    BY Typed
  <1>2. ASSUME NEW c \in Collections, NEW i \in Ids, Names(c, i)'
        PROVE  Names(c, i)
    BY <1>2 DEF Names
  <1>3. IdsApart'
    BY <1>2 DEF IdsApart, WorkInv
  <1>4. CurrentIsClaimed'
    BY <1>1 DEF CurrentIsClaimed, Current, Sent, WorkInv
  <1>5. ClaimedIsHeld' /\ OneTaskPerSummary'
    BY DEF WorkInv, ClaimedIsHeld, OneTaskPerSummary
  <1>6. QED
    BY <1>3, <1>4, <1>5 DEF WorkInv

LEMMA RequestWork ==
  ASSUME IndInv, WorkInv, NEW q \in Clients, RequestStep(q)
  PROVE  WorkInv'
  <1> DEFINE c == svc[q].coll
  <1>1. TypeOK
    BY DEF IndInv
  <1>2. /\ row \in [Collections -> Row \cup {NoRow}]
        /\ \A t \in tasks : t.coll \in Collections /\ t.id \in Ids
        /\ ~Idle(q) => c \in Collections
    BY <1>1, Typed
  <1>3. tasks' = tasks /\ rec' = rec
    BY DEF RequestStep, RequestEnds, CreateCollection, UpdateCollection,
           DeleteCollection, ReadTrigger, Bump, Insert, Remove, EndsInVain, RequestDies
  <1>4. CASE row' = row
    BY <1>1, <1>3, <1>4, WorkKept
  <1>5. CASE Bump(q)
    <2>1. c \in Collections /\ row' = [row EXCEPT ![c] = Renewed(row[c], svc[q])]
      BY <1>2, <1>5 DEF Bump
    <2>2. Renewed(row[c], svc[q]).id = row[c].id
          /\ Renewed(row[c], svc[q]).status = row[c].status
      BY DEF Renewed
    <2> HIDE DEF c
    <2>3. \A d \in Collections :
            row'[d].id = row[d].id /\ row'[d].status = row[d].status
      BY <1>2, <2>1, <2>2
    <2>4. QED
      BY <1>1, <1>3, <2>3, WorkKept
  <1>6. CASE Remove(q)
    <2>1. c \in Collections /\ row' = [row EXCEPT ![c] = NoRow]
      BY <1>2, <1>6 DEF Remove
    <2> HIDE DEF c
    <2>2. \A d \in Collections : row'[d] = row[d] \/ row'[d].id \notin Ids
      BY <1>2, <2>1, ConstantsAssumption DEF NoRow
    <2>3. QED
      BY <1>1, <1>3, <2>2, WorkKept
  <1>7. CASE Insert(q)
    <2>1. /\ c \in Collections /\ NewId \in FreeIds
          /\ row' = [row EXCEPT ![c] = [id |-> NewId, status |-> "PENDING",
                                        version |-> 1, observed |-> 0]]
      BY <1>2, <1>7, NewIdType DEF Insert
    <2> HIDE DEF c
    <2>2. /\ \A d \in Collections : row[d].id # NewId
          /\ \A t \in tasks : t.id # NewId
          /\ \A r \in Reconcilers : \A d \in Collections : rec[r].seen[d].id # NewId
      BY <2>1, FreshId
    <2>3. row'[c].id = NewId /\ \A d \in Collections \ {c} : row'[d] = row[d]
      BY <1>2, <2>1
    <2>4. ASSUME NEW d \in Collections, NEW i \in Ids, Names(d, i)'
          PROVE  IF i = NewId THEN d = c ELSE Names(d, i)
      BY <1>3, <2>2, <2>3, <2>4 DEF Names
    <2>5. IdsApart'
      BY <2>4 DEF IdsApart, WorkInv
    <2>6. \A t \in tasks : row'[t.coll].id = t.id => row'[t.coll] = row[t.coll]
      BY <1>2, <2>2, <2>3
    <2>7. CurrentIsClaimed'
      BY <1>3, <2>6 DEF CurrentIsClaimed, Current, Sent, WorkInv
    <2>8. ClaimedIsHeld' /\ OneTaskPerSummary'
      BY <1>3 DEF WorkInv, ClaimedIsHeld, OneTaskPerSummary
    <2>9. QED
      BY <2>5, <2>7, <2>8 DEF WorkInv
  <1>8. QED
    <2>1. row' = row \/ Bump(q) \/ Insert(q) \/ Remove(q)
      BY DEF RequestStep, RequestEnds, CreateCollection, UpdateCollection,
             DeleteCollection, ReadTrigger, EndsInVain, RequestDies
    <2>2. QED
      BY <1>4, <1>5, <1>6, <1>7, <2>1

-----------------------------------------------------------------------------
(* Rounds                                                                  *)

\* The steps of a round that neither send a message nor commit.
LEMMA RoundMoves ==
  ASSUME TypeOK, WorkInv, NEW r \in Reconcilers, NEW new,
         rec' = [rec EXCEPT ![r] = new], row' = row, tasks' = tasks,
         rec[r].pc # "sent",
         new.pc \in {"claimed", "sent"} => new.cur \in new.held,
         \A c \in Collections :
           new.seen[c].id \in {rec[r].seen[c].id, row[c].id, "NONE"}
  PROVE  WorkInv'
  <1>1. \A s \in Reconcilers : rec'[s] = IF s = r THEN new ELSE rec[s]
    BY Typed
  <1>2. ASSUME NEW c \in Collections, NEW i \in Ids, Names(c, i)'
        PROVE  Names(c, i)
    <2>1. CASE \E s \in Reconcilers : rec'[s].seen[c].id = i
      <3>1. PICK s \in Reconcilers : rec'[s].seen[c].id = i
        BY <2>1
      <3>2. rec[s].seen[c].id = i \/ row[c].id = i
        BY <1>1, <3>1, ConstantsAssumption
      <3>3. QED
        BY <3>2 DEF Names
    <2>2. CASE row[c].id = i \/ \E t \in tasks : t.coll = c /\ t.id = i
      BY <2>2 DEF Names
    <2>3. QED
      BY <1>2, <2>1, <2>2 DEF Names
  <1>3. IdsApart'
    BY <1>2 DEF IdsApart, WorkInv
  <1>4. ClaimedIsHeld'
    BY <1>1 DEF ClaimedIsHeld, WorkInv
  <1>5. \A c : Sent(c) => Sent(c)'
    BY <1>1 DEF Sent
  <1>6. CurrentIsClaimed' /\ OneTaskPerSummary'
    BY <1>5 DEF WorkInv, CurrentIsClaimed, OneTaskPerSummary, Current
  <1>7. QED
    BY <1>3, <1>4, <1>6 DEF WorkInv

\* A round that forgets the summary it worked on.
LEMMA SkippedSeen ==
  ASSUME NEW round \in Round, round.cur \in Collections, NEW c \in Collections
  PROVE  Skipped(round).seen[c].id \in {round.seen[c].id, "NONE"}
  <1>1. NotSeen.id = "NONE"
    BY DEF NotSeen
  <1>2. QED
    BY <1>1, SkippedRound

LEMMA DispatchWork ==
  ASSUME IndInv, WorkInv, NEW r \in Reconcilers, Dispatch(r)
  PROVE  WorkInv'
  <1> DEFINE c == rec[r].cur
             t == Queued(rec[r].seen[c].id, c, rec[r].seen[c].version)
  <1>1. /\ rec[r].pc = "claimed" /\ rec' = [rec EXCEPT ![r].pc = "sent"]
        /\ tasks' = tasks \cup {t} /\ row' = row
    BY DEF Dispatch
  <1>2. /\ rec \in [Reconcilers -> Round] /\ row \in [Collections -> Row \cup {NoRow}]
        /\ \A u \in tasks : u.coll \in Collections /\ u.id \in Ids
    BY Typed DEF IndInv
  <1>3. /\ c \in rec[r].held /\ c \in Collections
    BY <1>1, <1>2 DEF WorkInv, ClaimedIsHeld, Round
  <1>4. row[c].id = rec[r].seen[c].id /\ row[c].status # "GENERATING"
    BY <1>3 DEF IndInv, HeldStaysClaimable, HeldRow, Claimable
  <1>5. row[c] \in Row
    BY <1>2, <1>3, RowHasId DEF IndInv, HeldStaysClaimable, HeldRow, Exists
  <1>6. t.id = row[c].id /\ t.coll = c
    BY <1>4 DEF Queued
  <1> HIDE DEF t, c
  <1>7. row[c].id \in Ids
    BY <1>5, RowHasId
  <1>8. \A s \in Reconcilers :
          /\ rec'[s].seen = rec[s].seen /\ rec'[s].cur = rec[s].cur
          /\ rec'[s].held = rec[s].held
          /\ s # r => rec'[s].pc = rec[s].pc
    BY <1>1, <1>2 DEF Round
  <1>9. rec'[r].pc = "sent"
    BY <1>1, <1>2 DEF Round
  \* No task works on the summary that is sent.
  <1>10. \A u \in tasks : u.id # t.id
    <2> SUFFICES ASSUME NEW u \in tasks, u.id = t.id PROVE FALSE
      OBVIOUS
    <2>1. u.coll \in Collections /\ Names(c, u.id) /\ Names(u.coll, u.id) /\ u.id \in Ids
      BY <1>2, <1>6 DEF Names
    <2>2. u.coll = c
      BY <1>3, <2>1 DEF WorkInv, IdsApart
    <2>3. Sent(c)
      BY <1>4, <1>6, <2>2 DEF WorkInv, CurrentIsClaimed, Current
    <2>4. PICK s \in Reconcilers : rec[s].pc = "sent" /\ rec[s].cur = c
      BY <2>3 DEF Sent
    <2>5. c \in rec[s].held /\ s # r
      BY <1>1, <2>4 DEF WorkInv, ClaimedIsHeld
    <2>6. QED
      BY <1>3, <2>5 DEF IndInv, HeldStaysClaimable, HeldRow
  <1>11. OneTaskPerSummary'
    BY <1>1, <1>10 DEF WorkInv, OneTaskPerSummary
  <1>12. IdsApart'
    <2>1. ASSUME NEW d \in Collections, NEW i \in Ids, Names(d, i)'
          PROVE  Names(d, i)
      <3>1. t.coll = d /\ t.id = i => row[d].id = i
        BY <1>6
      <3>2. QED
        BY <1>1, <1>8, <2>1, <3>1 DEF Names
    <2>2. QED
      BY <2>1 DEF IdsApart, WorkInv
  <1>13. ClaimedIsHeld'
    BY <1>3, <1>8 DEF WorkInv, ClaimedIsHeld, c
  <1>14. CurrentIsClaimed'
    <2> SUFFICES ASSUME NEW u \in tasks', Current(u)'
                 PROVE  row[u.coll].status = "GENERATING" \/ Sent(u.coll)'
      BY <1>1 DEF CurrentIsClaimed
    <2>1. \A d : d = c => Sent(d)'
      BY <1>8, <1>9 DEF Sent, c
    <2>2. CASE u = t
      BY <1>6, <2>1, <2>2
    <2>3. CASE u \in tasks
      <3>1. Current(u)
        BY <1>1 DEF Current
      <3>2. row[u.coll].status = "GENERATING" \/ Sent(u.coll)
        BY <2>3, <3>1 DEF WorkInv, CurrentIsClaimed
      <3>3. Sent(u.coll) => Sent(u.coll)'
        BY <1>1, <1>8 DEF Sent
      <3>4. QED
        BY <3>2, <3>3
    <2>4. QED
      BY <1>1, <2>2, <2>3
  <1>15. QED
    BY <1>11, <1>12, <1>13, <1>14 DEF WorkInv

LEMMA CommitWork ==
  ASSUME IndInv, WorkInv, NEW r \in Reconcilers, CommitClaim(r)
  PROVE  WorkInv'
  <1> DEFINE new == [pc |-> "picking", seen |-> Skipped(rec[r]).seen, cur |-> "NONE",
                     held |-> {}, expired |-> TRUE]
  <1>1. /\ rec[r].pc = "sent" /\ rec' = [rec EXCEPT ![r] = new] /\ tasks' = tasks
        /\ row' = [c \in Collections |->
                     IF c \in rec[r].held THEN Marked(row[c], "GENERATING")
                     ELSE row[c]]
    BY DEF CommitClaim
  <1>2. /\ rec \in [Reconcilers -> Round]
        /\ \A u \in tasks : u.coll \in Collections
    BY Typed DEF IndInv
  <1>3. rec[r].cur \in rec[r].held /\ rec[r].cur \in Collections
    BY <1>1 DEF WorkInv, ClaimedIsHeld, IndInv, RoundsAgree
  <1>4. \A c \in Collections :
          /\ row'[c].id = row[c].id
          /\ c \in rec[r].held => row'[c].status = "GENERATING"
          /\ c \notin rec[r].held => row'[c] = row[c]
    BY <1>1 DEF Marked
  <1>5. \A s \in Reconcilers \ {r} : rec'[s] = rec[s]
    BY <1>1
  <1>6. rec'[r] = new /\ new.pc = "picking" /\ new.seen = Skipped(rec[r]).seen
    BY <1>1, <1>2
  <1> HIDE DEF new
  <1>7. IdsApart'
    <2>1. ASSUME NEW d \in Collections, NEW i \in Ids, Names(d, i)'
          PROVE  Names(d, i)
      <3>1. CASE \E s \in Reconcilers : rec'[s].seen[d].id = i
        <4>1. PICK s \in Reconcilers : rec'[s].seen[d].id = i
          BY <3>1
        <4>2. Skipped(rec[r]).seen[d].id \in {rec[r].seen[d].id, "NONE"}
          BY <1>2, <1>3, SkippedSeen
        <4>3. rec[s].seen[d].id = i
          BY <1>5, <1>6, <4>1, <4>2, ConstantsAssumption
        <4>4. QED
          BY <4>3 DEF Names
      <3>2. CASE row'[d].id = i \/ \E t \in tasks : t.coll = d /\ t.id = i
        BY <1>4, <3>2 DEF Names
      <3>3. QED
        BY <1>1, <2>1, <3>1, <3>2 DEF Names
    <2>2. QED
      BY <2>1 DEF IdsApart, WorkInv
  <1>8. ClaimedIsHeld'
    BY <1>5, <1>6 DEF WorkInv, ClaimedIsHeld
  <1>9. CurrentIsClaimed'
    <2> SUFFICES ASSUME NEW t \in tasks, Current(t)'
                 PROVE  row'[t.coll].status = "GENERATING" \/ Sent(t.coll)'
      BY <1>1 DEF CurrentIsClaimed
    <2>1. t.coll \in Collections /\ Current(t)
      BY <1>2, <1>4 DEF Current
    <2>2. CASE t.coll \in rec[r].held
      BY <1>4, <2>1, <2>2
    <2>3. CASE t.coll \notin rec[r].held
      <3>1. row[t.coll].status = "GENERATING" \/ Sent(t.coll)
        BY <2>1 DEF WorkInv, CurrentIsClaimed
      <3>2. Sent(t.coll) => Sent(t.coll)'
        BY <1>3, <1>5, <2>3 DEF Sent
      <3>3. QED
        BY <1>4, <2>1, <2>3, <3>1, <3>2
    <2>4. QED
      BY <2>2, <2>3
  <1>10. OneTaskPerSummary'
    BY <1>1 DEF WorkInv, OneTaskPerSummary
  <1>11. QED
    BY <1>7, <1>8, <1>9, <1>10 DEF WorkInv

LEMMA RoundWork ==
  ASSUME NoRepetition, IndInv, WorkInv, NEW r \in Reconcilers, RoundStep(r)
  PROVE  WorkInv'
  <1>1. TypeOK /\ rec[r] \in Round /\ row \in [Collections -> Row \cup {NoRow}]
    BY Typed DEF IndInv
  <1>2. rec[r].pc \notin {"idle", "picking"} => rec[r].cur \in Collections
    BY DEF IndInv, RoundsAgree
  <1>3. NotSeen.id = "NONE"
    BY DEF NotSeen
  <1>4. CASE Scan(r)
    <2> DEFINE seen == [c \in Collections |->
                         IF NeedsReconciliation(row[c])
                         THEN [id |-> row[c].id, version |-> row[c].version]
                         ELSE NotSeen]
               new == [pc |-> "picking", seen |-> seen, cur |-> "NONE",
                       held |-> {}, expired |-> FALSE]
    <2>1. /\ rec' = [rec EXCEPT ![r] = new] /\ UNCHANGED <<row, tasks>>
          /\ rec[r].pc # "sent"
      BY <1>4 DEF Scan
    <2>2. \A c \in Collections : seen[c].id \in {row[c].id, "NONE"}
      BY <1>3
    <2> HIDE DEF seen
    <2>3. new.pc = "picking" /\ new.seen = seen
      OBVIOUS
    <2> HIDE DEF new
    <2>4. \A c \in Collections : new.seen[c].id \in {rec[r].seen[c].id, row[c].id, "NONE"}
      BY <2>2, <2>3
    <2>5. QED
      BY <1>1, <2>1, <2>3, <2>4, RoundMoves
  <1>5. ASSUME NEW c \in Collections, Pick(r, c)
        PROVE  WorkInv'
    <2> DEFINE seen == [rec[r].seen EXCEPT ![c] = Reread(rec[r], c)]
               new == [pc |-> "claiming", seen |-> seen, cur |-> c,
                       held |-> rec[r].held, expired |-> rec[r].expired]
    <2>1. /\ rec' = [rec EXCEPT ![r] = new] /\ UNCHANGED <<row, tasks>>
          /\ rec[r].pc # "sent"
      BY <1>5 DEF Pick
    <2>2. Reread(rec[r], c).id = rec[r].seen[c].id
      BY DEF Reread
    <2>3. \A d \in Collections : seen[d].id = rec[r].seen[d].id
      BY <1>1, <2>2 DEF Round
    <2> HIDE DEF seen
    <2>4. new.pc = "claiming" /\ new.seen = seen
      OBVIOUS
    <2> HIDE DEF new
    <2>5. \A d \in Collections : new.seen[d].id \in {rec[r].seen[d].id, row[d].id, "NONE"}
      BY <2>3, <2>4
    <2>6. QED
      BY <1>1, <2>1, <2>4, <2>5, RoundMoves
  <1>6. ASSUME EndRound(r) \/ \E c \in Collections : PickRaises(r, c)
        PROVE  WorkInv'
    <2>1. /\ rec' = [rec EXCEPT ![r] = IdleRound] /\ UNCHANGED <<row, tasks>>
          /\ rec[r].pc # "sent"
      BY <1>6 DEF EndRound, PickRaises
    <2>2. IdleRound.pc = "idle" /\ \A c \in Collections : IdleRound.seen[c].id = "NONE"
      BY <1>3 DEF IdleRound
    <2>3. QED
      BY <1>1, <2>1, <2>2, RoundMoves
  <1>7. CASE Claim(r)
    <2> DEFINE new == [pc |-> "claimed", seen |-> rec[r].seen, cur |-> rec[r].cur,
                       held |-> rec[r].held \cup {rec[r].cur},
                       expired |-> rec[r].expired]
    <2>1. /\ rec' = [rec EXCEPT ![r] = new] /\ UNCHANGED <<row, tasks>>
          /\ rec[r].pc # "sent"
      BY <1>7 DEF Claim
    <2>2. new.seen = rec[r].seen /\ new.cur \in new.held
      OBVIOUS
    <2> HIDE DEF new
    <2>3. QED
      BY <1>1, <2>1, <2>2, RoundMoves
  <1>8. CASE ClaimFails(r) \/ DispatchFails(r)
    <2> DEFINE new == Skipped(rec[r])
    <2>1. /\ rec' = [rec EXCEPT ![r] = new] /\ UNCHANGED <<row, tasks>>
          /\ rec[r].pc \in {"claiming", "claimed"}
      BY <1>8 DEF ClaimFails, DispatchFails
    <2>2. new.pc = "picking"
      BY DEF Skipped
    <2>3. \A c \in Collections : new.seen[c].id \in {rec[r].seen[c].id, "NONE"}
      BY <1>1, <1>2, <2>1, SkippedSeen
    <2> HIDE DEF new
    <2>4. /\ new.pc \in {"claimed", "sent"} => new.cur \in new.held
          /\ \A c \in Collections :
               new.seen[c].id \in {rec[r].seen[c].id, row[c].id, "NONE"}
      BY <2>2, <2>3
    <2>5. rec[r].pc # "sent" /\ row' = row /\ tasks' = tasks
      BY <2>1
    <2>6. QED
      BY <1>1, <2>1, <2>4, <2>5, RoundMoves
  <1>9. ~RoundDies(r)
    BY DEF RoundDies, Fault, NoRepetition
  <1>10. QED
    BY <1>4, <1>5, <1>6, <1>7, <1>8, <1>9, DispatchWork, CommitWork
       DEF RoundStep, RoundWorks

-----------------------------------------------------------------------------
(* Tasks                                                                   *)

SameWork(t, u) == u.id = t.id /\ u.coll = t.coll

\* Steps that leave no task but what becomes of the tasks there were, one of
\* each at most, and no task about a row they write.
LEMMA TasksMove ==
  ASSUME TypeOK, WorkInv, rec' = rec,
         \A u \in tasks' : \E t \in tasks : SameWork(t, u),
         OneTaskPerSummary',
         \A c \in Collections :
           /\ row'[c].id = row[c].id
           /\ row'[c].status = row[c].status
              \/ \A u \in tasks' : ~(u.coll = c /\ Current(u))
  PROVE  WorkInv'
  <1>1. \A t \in tasks : t.coll \in Collections
    BY Typed
  <1>2. ASSUME NEW c \in Collections, NEW i \in Ids, Names(c, i)'
        PROVE  Names(c, i)
    BY <1>2 DEF Names, SameWork
  <1>3. IdsApart'
    BY <1>2 DEF IdsApart, WorkInv
  <1>4. ClaimedIsHeld'
    BY DEF ClaimedIsHeld, WorkInv
  <1>5. \A c : Sent(c)' <=> Sent(c)
    BY DEF Sent
  <1>6. ASSUME NEW u \in tasks'
        PROVE  Current(u)' => row'[u.coll].status = "GENERATING" \/ Sent(u.coll)'
    <2>1. PICK t \in tasks : SameWork(t, u)
      OBVIOUS
    <2>2. u.coll \in Collections
      BY <1>1, <2>1 DEF SameWork
    <2>3. (Current(u)' <=> Current(t)) /\ (Current(u) <=> Current(t))
      BY <2>1, <2>2 DEF SameWork, Current
    <2>4. Current(t) => row[t.coll].status = "GENERATING" \/ Sent(t.coll)
      BY DEF WorkInv, CurrentIsClaimed
    <2>5. Current(u)' => row'[u.coll].status = row[u.coll].status
      BY <2>2, <2>3
    <2>6. QED
      BY <1>5, <2>1, <2>3, <2>4, <2>5 DEF SameWork
  <1>7. CurrentIsClaimed'
    BY <1>6 DEF CurrentIsClaimed
  <1>8. QED
    BY <1>3, <1>4, <1>7 DEF WorkInv

\* A task that goes on, or ends, leaving the rows alone.
LEMMA TaskMoves ==
  ASSUME TypeOK, WorkInv, NEW t \in tasks, NEW u, SameWork(t, u),
         row' = row, rec' = rec, Becomes(t, u) \/ Done(t)
  PROVE  WorkInv'
  <1>1. \A v \in tasks' : v \in tasks \ {t} \/ v = u
    BY DEF Becomes, Done
  <1>2. \A v \in tasks' : \E w \in tasks : SameWork(w, v)
    BY <1>1 DEF SameWork
  <1>3. OneTaskPerSummary'
    BY <1>1 DEF OneTaskPerSummary, WorkInv, SameWork
  <1>4. QED
    BY <1>2, <1>3, TasksMove

\* A task that writes its row ends, and it was the only one about it.
LEMMA TaskWrites ==
  ASSUME TypeOK, WorkInv, NEW t \in tasks, NEW new, rec' = rec,
         Expected(t), row' = [row EXCEPT ![t.coll] = new],
         new.id = t.id,
         \A u \in tasks' : \E v \in tasks \ {t} : SameWork(v, u),
         OneTaskPerSummary'
  PROVE  WorkInv'
  <1>1. \A u \in tasks : u.coll \in Collections
    BY Typed
  <1>2. \A u \in tasks' : \E v \in tasks : SameWork(v, u)
    OBVIOUS
  <1>3. ASSUME NEW u \in tasks', u.coll = t.coll, Current(u)
        PROVE  FALSE
    <2>1. PICK v \in tasks \ {t} : SameWork(v, u)
      OBVIOUS
    <2>2. v.id = t.id
      BY <1>3, <2>1 DEF SameWork, Current, Expected
    <2>3. QED
      BY <2>1, <2>2 DEF WorkInv, OneTaskPerSummary
  <1>4. ASSUME NEW c \in Collections
        PROVE  /\ row'[c].id = row[c].id
               /\ row'[c].status = row[c].status
                  \/ \A u \in tasks' : ~(u.coll = c /\ Current(u))
    <2>1. CASE c = t.coll
      BY <1>3, <2>1, Typed DEF Expected
    <2>2. CASE c # t.coll
      BY <2>2, Typed
    <2>3. QED
      BY <2>1, <2>2
  <1>5. QED
    BY <1>2, <1>4, TasksMove

LEMMA TaskWork ==
  ASSUME NoRepetition, IndInv, WorkInv, NEW t \in tasks, TaskStep(t)
  PROVE  WorkInv'
  <1>1. TypeOK /\ t \in Task
    BY DEF IndInv, TypeOK
  <1>2. SameWork(t, t)
    BY DEF SameWork
  <1>3. ASSUME NEW pc
        PROVE  SameWork(t, [t EXCEPT !.pc = pc])
    BY <1>1 DEF SameWork, Task
  <1>4. CASE StartTask(t)
    <2>1. PICK u : SameWork(t, u) /\ (Becomes(t, u) \/ Done(t))
      BY <1>2, <1>3, <1>4 DEF StartTask
    <2>2. QED
      BY <1>1, <1>4, <2>1, TaskMoves DEF StartTask
  <1>5. CASE GenerationFails(t)
    <2>1. PICK u : SameWork(t, u) /\ Becomes(t, u)
      BY <1>3, <1>5 DEF GenerationFails
    <2>2. QED
      BY <1>1, <1>5, <2>1, TaskMoves DEF GenerationFails
  <1>6. CASE ReadCollection(t)
    <2> DEFINE k == [t EXCEPT !.pc = "read"]
               l == [k EXCEPT !.enabled = coll[t.coll].enabled]
               u == [l EXCEPT !.unchanged = TRUE]
    <2>1. SameWork(t, k) /\ k = [msg |-> t.msg, id |-> t.id, coll |-> t.coll,
              version |-> t.version, pc |-> "read", enabled |-> t.enabled,
              unchanged |-> t.unchanged]
      BY <1>1, <1>3 DEF Task
    <2>2. Becomes(t, u) \/ Done(t)
      BY <1>6 DEF ReadCollection
    <2> HIDE DEF k
    <2>3. l.id = k.id /\ l.coll = k.coll
          /\ l = [msg |-> t.msg, id |-> t.id, coll |-> t.coll,
              version |-> t.version, pc |-> "read", enabled |-> coll[t.coll].enabled,
              unchanged |-> t.unchanged]
      BY <2>1
    <2> HIDE DEF l
    <2>4. SameWork(t, u)
      BY <2>1, <2>3 DEF SameWork
    <2> HIDE DEF u
    <2>5. QED
      BY <1>1, <1>6, <2>2, <2>4, TaskMoves DEF ReadCollection
  <1>7. CASE CompleteSummary(t)
    <2> DEFINE new == [id |-> t.id, status |-> "COMPLETE",
                       version |-> row[t.coll].version, observed |-> t.version]
               Other(u) == IF u.coll = t.coll THEN [u EXCEPT !.unchanged = FALSE] ELSE u
    <2>1. /\ Expected(t) /\ rec' = rec /\ row' = [row EXCEPT ![t.coll] = new]
          /\ tasks' = {Other(u) : u \in tasks \ {t}} \/ tasks' = tasks \ {t}
      BY <1>7, Zenon DEF CompleteSummary, Done
    <2>2. \A u \in tasks : SameWork(u, Other(u))
      BY <1>1 DEF SameWork, TypeOK, Task
    <2> HIDE DEF Other
    <2>3. \A v \in tasks' : \E u \in tasks \ {t} : v = u \/ v = Other(u)
      BY <2>1
    <2>4. \A v \in tasks' : \E u \in tasks \ {t} : SameWork(u, v)
      BY <2>2, <2>3 DEF SameWork
    <2>5. OneTaskPerSummary'
      <3> SUFFICES ASSUME NEW v \in tasks', NEW w \in tasks', v.id = w.id
                   PROVE  v = w
        BY DEF OneTaskPerSummary
      <3>1. CASE tasks' = tasks \ {t}
        BY <3>1 DEF WorkInv, OneTaskPerSummary
      <3>2. CASE tasks' = {Other(u) : u \in tasks \ {t}}
        <4>1. PICK a \in tasks : v = Other(a)
          BY <3>2
        <4>2. PICK b \in tasks : w = Other(b)
          BY <3>2
        <4>3. a.id = b.id
          BY <2>2, <4>1, <4>2 DEF SameWork
        <4>4. a = b
          BY <4>3 DEF WorkInv, OneTaskPerSummary
        <4>5. QED
          BY <4>1, <4>2, <4>4
      <3>3. QED
        BY <2>1, <3>1, <3>2
    <2>6. new.id = t.id
      OBVIOUS
    <2> HIDE DEF new
    <2>7. QED
      BY <1>1, <2>1, <2>4, <2>5, <2>6, TaskWrites
  <1>8. CASE CompletionIgnored(t) \/ LoseTask(t)
    BY <1>1, <1>2, <1>8, TaskMoves DEF CompletionIgnored, LoseTask
  <1>9. CASE FailSummary(t)
    <2>1. CASE Expected(t)
      <3> DEFINE new == Marked(row[t.coll], "FAILED")
      <3>1. rec' = rec /\ row' = [row EXCEPT ![t.coll] = new] /\ tasks' = tasks \ {t}
        BY <1>9, <2>1 DEF FailSummary, Done
      <3>2. new.id = t.id
        BY <2>1 DEF Expected, Marked
      <3>3. \A u \in tasks' : u \in tasks \ {t} /\ SameWork(u, u)
        BY <3>1 DEF SameWork
      <3>4. OneTaskPerSummary'
        BY <3>1 DEF WorkInv, OneTaskPerSummary
      <3> HIDE DEF new
      <3>5. QED
        BY <1>1, <2>1, <3>1, <3>2, <3>3, <3>4, TaskWrites
    <2>2. CASE ~Expected(t)
      BY <1>1, <1>2, <1>9, <2>2, TaskMoves DEF FailSummary
    <2>3. QED
      BY <2>1, <2>2
  <1>10. ~RedeliverTask(t)
    BY DEF RedeliverTask, Fault, NoRepetition
  <1>11. QED
    BY <1>4, <1>5, <1>6, <1>7, <1>8, <1>9, <1>10 DEF TaskStep, TaskWorks

-----------------------------------------------------------------------------
(* One task per summary                                                    *)

LEMMA StutterWork == ASSUME WorkInv, UNCHANGED vars PROVE WorkInv'
  BY DEF vars, WorkInv, IdsApart, Names, ClaimedIsHeld, CurrentIsClaimed, Current,
         Sent, OneTaskPerSummary

LEMMA WorkInvariance == ASSUME NoRepetition PROVE Spec => []WorkInv
  <1>1. IndInv /\ WorkInv /\ [Next]_vars => WorkInv'
    BY RequestWork, RoundWork, TaskWork, StutterWork DEF Next
  <1>2. QED
    BY <1>1, InitWork, Invariance, PTL DEF Spec

\* Two generations of one summary never run side by side, whatever overlaps,
\* when no round dies between its message and its commit and no message is
\* repeated: the claims of _claim_summary_for_processing exclude each other,
\* update_version() keeps a row that is GENERATING as it is, and only the end
\* of the task lets the row be claimed again.
THEOREM TasksAreAlone ==
  ASSUME NoRepetition
  PROVE  Spec => []OneTaskPerSummary
  <1>1. WorkInv => OneTaskPerSummary
    BY DEF WorkInv
  <1>2. QED
    BY <1>1, WorkInvariance, PTL

-----------------------------------------------------------------------------
(* Rows follow the config                                                  *)

LEMMA InitConfig == HInit => ConfigInv
  BY DEF HInit, Init, ConfigInv, Idle, Exists, NoRow, Live

\* What c's row and config, and a request's part in them, are made of.
LEMMA SameServes ==
  ASSUME NEW c \in Collections, NEW q \in Clients, Serves(q, c),
         svc'[q] = svc[q], coll'[c].enabled = coll[c].enabled,
         svc[q].pc = "remove" => row'[c].id = row[c].id
  PROVE  Serves(q, c)'
  BY DEF Serves, Idle

\* Rounds and tasks keep the rows' ids, and what the collections ask for.
LEMMA ConfigKept ==
  ASSUME TypeOK, TypeOK', ConfigInv, svc' = svc, crossed \subseteq crossed',
         \A c \in Collections :
           /\ row'[c].id = row[c].id
           /\ coll'[c].status = coll[c].status
           /\ coll'[c].enabled = coll[c].enabled
  PROVE  ConfigInv'
  <1>1. \A q \in Clients : ~Idle(q)' => ~Idle(q) /\ svc[q].coll \in Collections
    BY Typed DEF Idle
  <1>2. ASSUME NEW c \in Collections
        PROVE  (Live(c)' <=> Live(c)) /\ (Exists(c)' <=> Exists(c))
    <2>1. row[c] \in Row \cup {NoRow} /\ row'[c] \in Row \cup {NoRow}
      BY DEF TypeOK
    <2>2. QED
      BY <2>1, RowHasId DEF Exists, Live
  <1>3. \A c \in Collections : \A q \in Clients : Serves(q, c) => Serves(q, c)'
    BY SameServes
  <1>4. QED
    BY <1>1, <1>2, <1>3 DEF ConfigInv

LEMMA RoundConfig ==
  ASSUME IndInv, ConfigInv, NEW r \in Reconcilers, RoundStep(r),
         crossed \subseteq crossed'
  PROVE  ConfigInv'
  <1>1. TypeOK /\ TypeOK'
    BY RoundInv DEF IndInv
  <1>2. coll' = coll /\ svc' = svc
    BY DEF RoundStep, RoundWorks, Scan, Claim, ClaimFails, Dispatch, CommitClaim,
           EndRound, Pick, PickRaises, DispatchFails, RoundDies
  <1>3. row' = row \/ CommitClaim(r)
    BY DEF RoundStep, RoundWorks, Scan, Claim, ClaimFails, Dispatch, EndRound, Pick,
           PickRaises, DispatchFails, RoundDies
  <1>4. \A c \in Collections : row'[c].id = row[c].id
    BY <1>3 DEF CommitClaim, Marked
  <1>5. QED
    BY <1>1, <1>2, <1>4, ConfigKept

LEMMA TaskConfig ==
  ASSUME IndInv, ConfigInv, NEW t \in tasks, TaskStep(t), crossed \subseteq crossed'
  PROVE  ConfigInv'
  <1>1. TypeOK /\ TypeOK' /\ t.coll \in Collections
    BY TaskInv, Typed DEF IndInv
  <1>2. svc' = svc
    BY DEF TaskStep, TaskWorks, StartTask, ReadCollection, CompleteSummary,
           CompletionIgnored, FailSummary, GenerationFails, LoseTask, RedeliverTask
  <1>3. coll' = coll \/ coll' = [coll EXCEPT ![t.coll].text = "summary"]
    BY Zenon DEF TaskStep, TaskWorks, StartTask, ReadCollection, CompleteSummary,
           CompletionIgnored, FailSummary, GenerationFails, LoseTask, RedeliverTask
  <1>4. \A c \in Collections :
          coll'[c].status = coll[c].status /\ coll'[c].enabled = coll[c].enabled
    BY <1>1, <1>3 DEF TypeOK, Collection
  <1>5. \A c \in Collections : row'[c].id = row[c].id
    <2>1. \/ row' = row
          \/ CompleteSummary(t) \/ (FailSummary(t) /\ Expected(t))
      BY DEF TaskStep, TaskWorks, StartTask, ReadCollection,
             CompletionIgnored, FailSummary, GenerationFails, LoseTask, RedeliverTask
    <2>2. CASE CompleteSummary(t)
      BY <1>1, <2>2 DEF CompleteSummary, Expected, TypeOK
    <2>3. CASE FailSummary(t) /\ Expected(t)
      BY <1>1, <2>3 DEF FailSummary, Expected, Marked, TypeOK
    <2>4. QED
      BY <2>1, <2>2, <2>3
  <1>6. QED
    BY <1>1, <1>2, <1>4, <1>5, ConfigKept

-----------------------------------------------------------------------------
(* The steps of a request                                                  *)

\* A request's step concerns one collection: what has to be shown of it.
LEMMA OneCollection ==
  ASSUME TypeOK, ConfigInv, NEW q \in Clients, NEW c \in Collections,
         \A d \in Collections \ {c} : coll'[d] = coll[d] /\ row'[d] = row[d],
         \A p \in Clients \ {q} : svc'[p] = svc[p],
         crossed \ {c} \subseteq crossed',
         coll[c].status # "NONE" => coll'[c].status # "NONE",
         Idle(q) \/ svc[q].coll = c,
         ~Idle(q)' => /\ svc'[q].coll = c
                      /\ svc'[q].pc = "insert" => svc'[q].enabled
                      /\ svc'[q].pc = "remove" => ~svc'[q].enabled
                      /\ coll'[c].status # "NONE",
         coll'[c].status = "NONE" => ~Exists(c)',
         Live(c)' /\ c \notin crossed' =>
           (Exists(c)' <=> coll'[c].enabled) \/ \E p \in Clients : Serves(p, c)'
  PROVE  ConfigInv'
  <1>1. ASSUME NEW p \in Clients, ~Idle(p)'
        PROVE  /\ svc'[p].pc = "insert" => svc'[p].enabled
               /\ svc'[p].pc = "remove" => ~svc'[p].enabled
               /\ coll'[svc'[p].coll].status # "NONE"
    <2>1. CASE p = q
      BY <1>1, <2>1
    <2>2. CASE p # q
      <3>1. svc'[p] = svc[p] /\ ~Idle(p)
        BY <1>1, <2>2 DEF Idle
      <3>2. /\ svc[p].pc = "insert" => svc[p].enabled
            /\ svc[p].pc = "remove" => ~svc[p].enabled
            /\ coll[svc[p].coll].status # "NONE"
        BY <3>1 DEF ConfigInv
      <3>3. svc[p].coll \in Collections
        BY <3>1, Typed
      <3>4. QED
        BY <3>1, <3>2, <3>3
    <2>3. QED
      BY <2>1, <2>2
  <1>2. ASSUME NEW d \in Collections, d # c, Live(d)', d \notin crossed'
        PROVE  (Exists(d)' <=> coll'[d].enabled) \/ \E p \in Clients : Serves(p, d)'
    <2>1. Live(d) /\ d \notin crossed /\ (Exists(d)' <=> Exists(d))
          /\ coll'[d].enabled = coll[d].enabled
      BY <1>2 DEF Live, Exists
    <2>2. ASSUME NEW p \in Clients, Serves(p, d)
          PROVE  Serves(p, d)'
      <3>1. p # q
        BY <1>2, <2>2 DEF Serves
      <3>2. QED
        BY <1>2, <2>2, <3>1, SameServes
    <2>3. QED
      BY <2>1, <2>2 DEF ConfigInv
  <1>3. \A d \in Collections \ {c} : coll'[d].status = "NONE" => ~Exists(d)'
    BY DEF ConfigInv, Exists
  <1>4. QED
    BY <1>1, <1>2, <1>3 DEF ConfigInv

\* Only a request that begins takes a collection off crossed, its own.
LEMMA CrossedStays ==
  ASSUME NEW q \in Clients, NEW c,
         crossed' = (crossed \ Written) \cup Failed,
         \A p \in Clients \ {q} : svc'[p] = svc[p],
         ~Idle(q)' => svc'[q].coll = c
  PROVE  /\ crossed \ {c} \subseteq crossed'
         /\ ~Idle(q) => crossed \subseteq crossed'
         /\ Failed \subseteq crossed'
  <1>1. ASSUME NEW d \in Written
        PROVE  d = c /\ Idle(q)
    <2>1. PICK p \in Clients : Idle(p) /\ ~Idle(p)' /\ d = svc'[p].coll
      BY DEF Written
    <2>2. p = q
      BY <2>1 DEF Idle
    <2>3. QED
      BY <2>1, <2>2
  <1>2. QED
    BY <1>1

LEMMA CrossedGrows ==
  ASSUME crossed' = (crossed \ Written) \cup Failed, svc' = svc
  PROVE  crossed \subseteq crossed'
  <1>1. Written = {}
    BY DEF Written, Idle
  <1>2. QED
    BY <1>1

\* A request writes a config, and deletes a collection, in one step of its own.
LEMMA WriteConfig ==
  ASSUME TypeOK, ConfigInv, NEW q \in Clients, NEW c \in Collections,
         crossed' = (crossed \ Written) \cup Failed,
         \/ CreateCollection(q, c) \/ UpdateCollection(q, c)
         \/ DeleteCollection(q, c)
  PROVE  ConfigInv'
  <1>1. /\ coll \in [Collections -> Collection]
        /\ svc \in [Clients -> Request \cup {NoRequest}]
    BY DEF TypeOK
  <1>2. row' = row /\ Idle(q)
    BY DEF CreateCollection, UpdateCollection, DeleteCollection
  <1>3. CASE CreateCollection(q, c) \/ UpdateCollection(q, c)
    <2>1. PICK e \in BOOLEAN :
            /\ coll' = [coll EXCEPT ![c] = [status |-> "ACTIVE", enabled |-> e,
                                            text |-> "user"]]
            /\ \/ svc' = [svc EXCEPT ![q] = Asks(c, e)]
               \/ svc' = [svc EXCEPT ![q] = NoRequest] /\ ~e /\ coll[c].status = "NONE"
      BY <1>3 DEF CreateCollection, UpdateCollection
    <2>2. /\ coll'[c].status = "ACTIVE" /\ coll'[c].enabled = e
          /\ \A d \in Collections \ {c} : coll'[d] = coll[d]
      BY <1>1, <2>1
    <2>3. /\ \A p \in Clients \ {q} : svc'[p] = svc[p]
          /\ \/ svc'[q] = Asks(c, e)
             \/ svc'[q] = NoRequest /\ ~e /\ ~Exists(c)
      BY <1>1, <2>1 DEF ConfigInv
    <2>4. /\ Asks(c, e).coll = c /\ Asks(c, e).enabled = e
          /\ Asks(c, e).pc = "trigger" /\ Asks(c, e) # NoRequest
      BY DEF Asks, NoRequest
    <2>5. ~Idle(q)' => svc'[q] = Asks(c, e)
      BY <2>3 DEF Idle
    <2>6. (Exists(c)' <=> coll'[c].enabled) \/ Serves(q, c)'
      BY <1>2, <2>2, <2>3, <2>4 DEF Serves, Idle, Exists
    <2>7. crossed \ {c} \subseteq crossed'
      BY <2>3, <2>4, <2>5, CrossedStays
    <2>8. QED
      BY <1>2, <2>2, <2>3, <2>4, <2>5, <2>6, <2>7, OneCollection
  <1>4. CASE DeleteCollection(q, c)
    <2>1. svc' = svc /\ coll' = [coll EXCEPT ![c].status = "DELETED"]
      BY <1>4 DEF DeleteCollection
    <2>2. coll'[c].status = "DELETED" /\ \A d \in Collections \ {c} : coll'[d] = coll[d]
      BY <1>1, <2>1 DEF Collection
    <2>3. crossed \subseteq crossed' /\ Idle(q)'
      BY <1>2, <2>1, CrossedGrows DEF Idle
    <2>4. ~Live(c)'
      BY <2>2 DEF Live
    <2>5. QED
      BY <1>2, <2>1, <2>2, <2>3, <2>4, OneCollection
  <1>5. QED
    BY <1>3, <1>4

\* The trigger reads the row: if it asks for nothing, there is nothing to do.
LEMMA ReadConfig ==
  ASSUME TypeOK, ConfigInv, NEW q \in Clients, ReadTrigger(q),
         crossed' = (crossed \ Written) \cup Failed
  PROVE  ConfigInv'
  <1>0. PICK c \in Collections : c = svc[q].coll
    BY Typed DEF ReadTrigger
  <1> DEFINE what == Decision(svc[q].enabled, row[c])
  <1>1. /\ ~Idle(q) /\ coll' = coll /\ row' = row
        /\ svc[q].enabled \in BOOLEAN /\ svc[q].pc = "trigger"
    BY Typed DEF ReadTrigger
  <1>2. row[c] \in Row \cup {NoRow} /\ (Exists(c) <=> row[c] # NoRow)
    BY <1>1, RowHasId DEF Exists, TypeOK
  <1>3. /\ what \in {"insert", "bump", "remove", "nothing"}
        /\ what = "insert" => svc[q].enabled
        /\ what = "remove" => ~svc[q].enabled
        /\ what \in {"bump", "nothing"} => (Exists(c) <=> svc[q].enabled)
    BY <1>1, <1>2 DEF Decision, NoRow
  <1>4. svc' = [svc EXCEPT ![q] =
                 IF what = "nothing" THEN NoRequest
                 ELSE [pc |-> what, coll |-> c, enabled |-> svc[q].enabled,
                       id |-> row[c].id, version |-> row[c].version]]
    BY <1>0 DEF ReadTrigger
  <1>5. svc'[q] = IF what = "nothing" THEN NoRequest
                  ELSE [pc |-> what, coll |-> c, enabled |-> svc[q].enabled,
                        id |-> row[c].id, version |-> row[c].version]
    BY <1>4 DEF TypeOK
  <1> HIDE DEF what
  <1>6. what # "nothing" => /\ svc'[q].pc = what /\ svc'[q].id = row[c].id
                            /\ svc'[q].coll = c /\ svc'[q].enabled = svc[q].enabled
    BY <1>5
  <1>7. Idle(q)' <=> what = "nothing"
    BY <1>5 DEF Idle, NoRequest
  <1>8. coll[c].status # "NONE"
    BY <1>0, <1>1 DEF ConfigInv
  <1>9. \A p \in Clients \ {q} : svc'[p] = svc[p]
    BY <1>4 DEF TypeOK
  <1>10. crossed \subseteq crossed'
    BY <1>1, <1>6, <1>7, <1>9, CrossedStays
  <1>11. ASSUME Live(c)', c \notin crossed'
         PROVE  (Exists(c)' <=> coll'[c].enabled) \/ \E p \in Clients : Serves(p, c)'
    <2>1. CASE Exists(c) <=> coll[c].enabled
      BY <1>1, <2>1 DEF Exists
    <2>2. ASSUME NEW p \in Clients, Serves(p, c), p # q
          PROVE  Serves(p, c)'
      BY <1>1, <1>9, <2>2, SameServes
    <2>3. CASE Serves(q, c)
      <3>1. svc[q].enabled = coll[c].enabled
        BY <2>3 DEF Serves
      <3>2. CASE what \in {"insert", "remove"}
        BY <1>1, <1>6, <1>7, <3>1, <3>2 DEF Serves
      <3>3. CASE what \in {"bump", "nothing"}
        BY <1>1, <1>3, <3>1, <3>3 DEF Exists
      <3>4. QED
        BY <1>3, <3>2, <3>3
    <2>4. QED
      BY <1>1, <1>10, <1>11, <2>1, <2>2, <2>3 DEF ConfigInv, Live
  <1>12. coll'[c].status = "NONE" => ~Exists(c)'
    BY <1>1, <1>8
  <1>13. QED
    BY <1>0, <1>1, <1>3, <1>6, <1>7, <1>8, <1>9, <1>10, <1>11, <1>12, OneCollection

\* A request writes the row, or finds it other than it was: for the config
\* the collection has now, or else the collection is crossed.
LEMMA ActConfig ==
  ASSUME IndInv, ConfigInv, NEW q \in Clients,
         \/ Bump(q) \/ Insert(q) \/ Remove(q) \/ EndsInVain(q) \/ RequestDies(q),
         crossed' = (crossed \ Written) \cup Failed
  PROVE  ConfigInv'
  <1>1. /\ TypeOK /\ ~Idle(q) /\ coll' = coll
        /\ svc' = [svc EXCEPT ![q] = NoRequest]
    BY DEF Bump, Insert, Remove, EndsInVain, RequestDies, IndInv
  <1>2. /\ row \in [Collections -> Row \cup {NoRow}]
        /\ svc \in [Clients -> Request \cup {NoRequest}]
    BY <1>1 DEF TypeOK
  <1>3. PICK c \in Collections : c = svc[q].coll
    BY <1>1, Typed
  <1>4. Idle(q)' /\ \A p \in Clients \ {q} : svc'[p] = svc[p]
    BY <1>1, <1>2 DEF Idle
  <1>5. crossed \subseteq crossed' /\ Failed \subseteq crossed'
    BY <1>1, <1>4, CrossedStays
  <1>6. coll[c].status # "NONE"
    BY <1>1, <1>3 DEF ConfigInv
  <1>7. ActsOnOldConfig(q) \/ RequestDies(q) => c \in crossed'
    BY <1>3, <1>5 DEF Failed
  <1>8. SUFFICES
          /\ \A d \in Collections \ {c} : row'[d] = row[d]
          /\ Live(c) /\ c \notin crossed' =>
               (Exists(c)' <=> coll[c].enabled) \/ \E p \in Clients : Serves(p, c)'
    BY <1>1, <1>3, <1>4, <1>5, <1>6, <1>8, OneCollection DEF Live
  <1>9. (Exists(c) <=> coll[c].enabled) \/ \E p \in Clients : Serves(p, c)
        \/ c \in crossed \/ ~Live(c)
    BY DEF ConfigInv
  \* Another request's part is kept as long as the row is.
  <1>10. ASSUME NEW p \in Clients, p # q, Serves(p, c),
                row'[c].id = row[c].id
         PROVE  Serves(p, c)'
    BY <1>1, <1>4, <1>10, SameServes
  <1>11. CASE Insert(q) \/ Remove(q)
    <2>1. PICK s : row' = [row EXCEPT ![c] = s]
      BY <1>3, <1>11 DEF Insert, Remove
    <2>2. \A d \in Collections \ {c} : row'[d] = row[d]
      BY <1>2, <2>1
    <2>3. Exists(c)' <=> Insert(q)
      <3>1. CASE Insert(q)
        BY <1>2, <1>3, <3>1 DEF Insert, Exists
      <3>2. CASE Remove(q)
        <4>1. ~Exists(c)'
          BY <1>2, <1>3, <3>2 DEF Remove, Exists, NoRow
        <4>2. ~Insert(q)
          BY <3>2 DEF Remove, Insert
        <4>3. QED
          BY <4>1, <4>2
      <3>3. QED
        BY <1>11, <3>1, <3>2
    <2>4. svc[q].enabled \in BOOLEAN /\ (svc[q].enabled <=> Insert(q))
      <3>1. svc[q].enabled \in BOOLEAN
        BY <1>1, Typed
      <3>2. Insert(q) => svc[q].pc = "insert"
        BY DEF Insert
      <3>3. Remove(q) => svc[q].pc = "remove"
        BY DEF Remove
      <3>4. QED
        BY <1>1, <1>11, <3>1, <3>2, <3>3 DEF ConfigInv
    <2>5. c \notin crossed' => svc[q].enabled = coll[c].enabled
      BY <1>3, <1>7, <1>11 DEF ActsOnOldConfig
    <2>6. QED
      BY <2>2, <2>3, <2>4, <2>5
  <1>12. CASE Bump(q)
    <2>1. row' = [row EXCEPT ![c] = Renewed(row[c], svc[q])]
          /\ svc[q].pc = "bump"
      BY <1>3, <1>12 DEF Bump
    <2>2. row'[c] = Renewed(row[c], svc[q]) /\ \A d \in Collections \ {c} : row'[d] = row[d]
      BY <1>2, <2>1
    <2>3. row'[c].id = row[c].id /\ (Exists(c)' <=> Exists(c))
      BY <2>2 DEF Renewed, Exists
    <2>4. ~Serves(q, c)
      BY <2>1 DEF Serves
    <2>5. QED
      BY <1>5, <1>9, <1>10, <2>2, <2>3, <2>4
  <1>13. CASE EndsInVain(q)
    <2>1. row' = row /\ (Exists(c)' <=> Exists(c))
      BY <1>13 DEF EndsInVain, Exists
    <2>2. Serves(q, c) => (Exists(c) <=> coll[c].enabled)
      <3>1. Serves(q, c) => svc[q].pc = "insert" /\ Exists(c)
        BY <1>3, <1>13 DEF EndsInVain, Serves
      <3>2. Serves(q, c) => svc[q].enabled = coll[c].enabled
        BY DEF Serves
      <3>3. svc[q].pc = "insert" => svc[q].enabled
        BY <1>1 DEF ConfigInv
      <3>4. QED
        BY <3>1, <3>2, <3>3
    <2>3. QED
      BY <1>5, <1>9, <1>10, <2>1, <2>2
  <1>14. CASE RequestDies(q)
    BY <1>7, <1>14 DEF RequestDies
  <1>15. QED
    BY <1>11, <1>12, <1>13, <1>14

LEMMA RequestConfig ==
  ASSUME IndInv, ConfigInv, NEW q \in Clients, RequestStep(q),
         crossed' = (crossed \ Written) \cup Failed
  PROVE  ConfigInv'
  <1>1. TypeOK
    BY DEF IndInv
  <1>2. CASE \E c \in Collections :
               CreateCollection(q, c) \/ UpdateCollection(q, c) \/ DeleteCollection(q, c)
    BY <1>1, <1>2, WriteConfig
  <1>3. QED
    BY <1>1, <1>2, ReadConfig, ActConfig DEF RequestStep, RequestEnds

LEMMA StutterConfig == ASSUME ConfigInv, UNCHANGED hvars PROVE ConfigInv'
  BY DEF hvars, vars, ConfigInv, Idle, Serves, Live, Exists

\* The inductive invariant of the histories of CollectionSummary, for any
\* number of requests and faults.
LEMMA ConfigInvariance == HSpec => []ConfigInv
  <1>1. HSpec => Spec
    <2>1. HInit => Init
      BY DEF HInit
    <2>2. [HNext]_hvars => [Next]_vars
      BY DEF HNext, hvars
    <2>3. QED
      BY <2>1, <2>2, PTL DEF HSpec, Spec
  <1>2. IndInv /\ ConfigInv /\ [HNext]_hvars => ConfigInv'
    <2>1. SUFFICES ASSUME IndInv, ConfigInv, HNext PROVE ConfigInv'
      BY StutterConfig
    <2>2. crossed' = (crossed \ Written) \cup Failed
      BY <2>1 DEF HNext
    <2>3. ASSUME NEW r \in Reconcilers, RoundStep(r) PROVE ConfigInv'
      <3>1. svc' = svc
        BY <2>3 DEF RoundStep, RoundWorks, Scan, Claim, ClaimFails, Dispatch, CommitClaim,
               EndRound, Pick, PickRaises, DispatchFails, RoundDies
      <3>2. QED
        BY <2>1, <2>2, <2>3, <3>1, CrossedGrows, RoundConfig
    <2>4. ASSUME NEW t \in tasks, TaskStep(t) PROVE ConfigInv'
      <3>1. svc' = svc
        BY <2>4 DEF TaskStep, TaskWorks, StartTask, ReadCollection, CompleteSummary,
               CompletionIgnored, FailSummary, GenerationFails, LoseTask, RedeliverTask
      <3>2. QED
        BY <2>1, <2>2, <2>4, <3>1, CrossedGrows, TaskConfig
    <2>5. QED
      BY <2>1, <2>2, <2>3, <2>4, RequestConfig DEF HNext, Next
  <1>3. QED
    BY <1>1, <1>2, InitConfig, Invariance, PTL DEF HSpec

\* What trigger_collection_summary_generation promises, with requests that
\* overlap and die: once no request for a living collection is in progress, it
\* has a summary row if and only if its config enables one, as long as no
\* request, since that config was written, created or dropped the row for a
\* config that had been replaced, or died.  The next update makes up for
\* either, and no round or task, late or repeated, creates or drops a row.
THEOREM RowsMatchConfig == HSpec => []RowMatchesConfig
  <1>1. ConfigInv => RowMatchesConfig
    BY DEF ConfigInv, RowMatchesConfig, Asked, Serves
  <1>2. QED
    BY <1>1, ConfigInvariance, PTL

=============================================================================
