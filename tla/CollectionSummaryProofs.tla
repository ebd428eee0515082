---------------------- MODULE CollectionSummaryProofs ----------------------
(***************************************************************************)
(* Theorems about CollectionSummary, for every set of collections,         *)
(* requests and reconcilers and every bound.                               *)
(***************************************************************************)
EXTENDS CollectionSummary, TLAPS

LEMMA NewIdType == FreeIds # {} => NewId \in FreeIds /\ NewId \in Ids
  <1>1. FreeIds # {} => NewId \in FreeIds
    BY DEF NewId
  <1>2. QED BY <1>1 DEF FreeIds

LEMMA NewMessageType == FreeMessages # {} => NewMessage \in Messages
  <1>1. FreeMessages # {} => NewMessage \in FreeMessages
    BY DEF NewMessage
  <1>2. QED BY <1>1 DEF FreeMessages

\* A row that is there has an id, and NoRow has none.
LEMMA RowHasId ==
  ASSUME NEW r \in Row \cup {NoRow}
  PROVE  /\ r.id \in Ids <=> r \in Row
         /\ r.status # "NONE" <=> r \in Row
         /\ r.version \in Nat /\ r.observed \in Nat
         /\ r \in Row => r.version \in Nat \ {0} /\ r # NoRow
  BY ConstantsAssumption DEF Row, NoRow, Status

LEMMA MarkedRow ==
  ASSUME NEW r \in Row, NEW s \in Status
  PROVE  /\ Marked(r, s) \in Row /\ Marked(r, s).status = s
         /\ Marked(r, s).id = r.id /\ Marked(r, s).version = r.version
         /\ Marked(r, s).observed = r.observed
  BY DEF Marked, Row

LEMMA IdleRoundType == IdleRound \in Round
  BY DEF IdleRound, Round

-----------------------------------------------------------------------------
(* What each part of the invariant depends on                              *)

\* Rounds that stay as they are keep their agreement.
LEMMA SameRounds ==
  ASSUME RoundsAgree, rec' = rec
  PROVE  RoundsAgree'
  BY DEF RoundsAgree

\* Held rows are safe from a step that leaves them, and the rounds, alone.
LEMMA HeldKept ==
  ASSUME HeldStaysClaimable, rec' = rec,
         \A c \in Collections : Locked(c) => row'[c] = row[c],
         rec \in [Reconcilers -> Round]
  PROVE  HeldStaysClaimable'
  <1>1. ASSUME NEW r \in Reconcilers, NEW c \in rec[r].held
        PROVE  c \in Collections /\ row'[c] = row[c]
    <2>1. c \in Collections
      BY DEF Round
    <2>2. QED
      BY <2>1 DEF Locked
  <1>2. QED
    BY <1>1 DEF HeldStaysClaimable, HeldRow, Exists, Claimable

\* Requests keep their agreement when rows keep their ids and versions.
LEMMA RequestsKept ==
  ASSUME RequestsAgree, svc' = svc, svc \in [Clients -> Request \cup {NoRequest}],
         \A c \in Collections :
           row'[c].id = row[c].id /\ row'[c].version = row[c].version
  PROVE  RequestsAgree'
  <1> SUFFICES ASSUME NEW q \in Clients,
                      ~Idle(q)', svc'[q].pc \in {"bump", "remove"}
               PROVE  /\ svc'[q].id \in Ids
                      /\ (/\ \A p \in Clients : p = q
                          /\ row'[svc'[q].coll].id = svc'[q].id)
                           => svc'[q].version = row'[svc'[q].coll].version
    BY DEF RequestsAgree
  <1>1. ~Idle(q) /\ svc[q].pc \in {"bump", "remove"}
    BY DEF Idle
  <1>2. svc[q].coll \in Collections
    BY <1>1 DEF Idle, Request
  <1>3. QED
    BY <1>1, <1>2 DEF RequestsAgree

\* A request that ends, or has nothing to write over, has nothing to agree on;
\* when another one is in progress, it need not know the version.
LEMMA RequestsEnd ==
  ASSUME RequestsAgree, svc \in [Clients -> Request \cup {NoRequest}],
         NEW q \in Clients, NEW s, svc' = [svc EXCEPT ![q] = s],
         \/ s = NoRequest
         \/ s.pc \notin {"bump", "remove"}
         \/ s.id \in Ids /\ (row'[s.coll].id = s.id => s.version = row'[s.coll].version)
  PROVE  RequestsAgree'
  <1> SUFFICES ASSUME NEW p \in Clients,
                      ~Idle(p)', svc'[p].pc \in {"bump", "remove"}
               PROVE  /\ svc'[p].id \in Ids
                      /\ (/\ \A u \in Clients : u = p
                          /\ row'[svc'[p].coll].id = svc'[p].id)
                           => svc'[p].version = row'[svc'[p].coll].version
    BY DEF RequestsAgree
  <1>1. CASE p = q
    BY <1>1 DEF Idle
  <1>2. CASE p # q
    <2>1. ~Idle(p) /\ svc[p].pc \in {"bump", "remove"} /\ svc'[p] = svc[p]
      BY <1>2 DEF Idle
    <2>2. svc[p].id \in Ids
      BY <2>1 DEF RequestsAgree
    <2>3. QED
      BY <1>2, <2>1, <2>2
  <1>3. QED
    BY <1>1, <1>2

-----------------------------------------------------------------------------
LEMMA InitInv == Init => IndInv
  <1> SUFFICES ASSUME Init PROVE IndInv
    OBVIOUS
  <1>1. TypeOK
    BY IdleRoundType, ConstantsAssumption DEF Init, TypeOK, Collection
  <1>2. HeldStaysClaimable /\ RoundsAgree /\ RequestsAgree
    BY DEF Init, HeldStaysClaimable, RoundsAgree, RequestsAgree, IdleRound, Idle
  <1>3. QED
    BY <1>1, <1>2 DEF IndInv

LEMMA RequestInv ==
  ASSUME IndInv, NEW q \in Clients, RequestStep(q)
  PROVE  IndInv'
  <1> USE DEF IndInv, TypeOK
  <1>a. NoRequest \in Request \cup {NoRequest}
    OBVIOUS
  <1>b. ASSUME NEW c \in Collections, NEW e \in BOOLEAN
        PROVE  Asks(c, e) \in Request /\ Asks(c, e).pc = "trigger"
    BY DEF Asks, Request
  <1>1. ASSUME NEW c \in Collections,
               CreateCollection(q, c) \/ UpdateCollection(q, c) \/ DeleteCollection(q, c)
        PROVE  IndInv'
    <2>1. UNCHANGED <<row, rec>>
      BY <1>1 DEF CreateCollection, UpdateCollection, DeleteCollection
    <2>2. coll' \in [Collections -> Collection]
      <3>1. CASE CreateCollection(q, c)
        BY <3>1 DEF CreateCollection, Collection
      <3>2. CASE UpdateCollection(q, c)
        <4>1. PICK e \in BOOLEAN :
                coll' = [coll EXCEPT ![c] = [status |-> "ACTIVE", enabled |-> e,
                                             text |-> "user"]]
          BY <3>2 DEF UpdateCollection
        <4>2. QED
          BY <4>1 DEF Collection
      <3>3. CASE DeleteCollection(q, c)
        <4>1. [coll[c] EXCEPT !.status = "DELETED"] \in Collection
          BY DEF Collection
        <4>2. QED
          BY <3>3, <4>1 DEF DeleteCollection
      <3>4. QED
        BY <1>1, <3>1, <3>2, <3>3
    <2>3. svc' \in [Clients -> Request \cup {NoRequest}] /\ RequestsAgree'
      <3>1. CASE CreateCollection(q, c) \/ UpdateCollection(q, c)
        <4>1. PICK s \in Request \cup {NoRequest} :
                /\ svc' = [svc EXCEPT ![q] = s]
                /\ s = NoRequest \/ s.pc = "trigger"
          BY <1>a, <1>b, <3>1 DEF CreateCollection, UpdateCollection
        <4>2. RequestsAgree'
          BY <4>1, RequestsEnd
        <4>3. QED
          BY <4>1, <4>2
      <3>2. CASE DeleteCollection(q, c)
        BY <2>1, <3>2, RequestsKept DEF DeleteCollection
      <3>3. QED
        BY <1>1, <3>1, <3>2
    <2>4. tasks' \subseteq Task
      BY <1>1 DEF CreateCollection, UpdateCollection, DeleteCollection
    <2>5. updates' \in 0..MaxUpdates /\ faults' \in 0..MaxFaults
      <3>1. CASE UpdateCollection(q, c)
        <4>1. updates < MaxUpdates /\ updates' = updates + 1 /\ faults' = faults
          BY <3>1 DEF UpdateCollection
        <4>2. QED
          BY <4>1, ConstantsAssumption
      <3>2. CASE CreateCollection(q, c) \/ DeleteCollection(q, c)
        BY <3>2 DEF CreateCollection, DeleteCollection
      <3>3. QED
        BY <1>1, <3>1, <3>2
    <2>6. HeldStaysClaimable' /\ RoundsAgree'
      BY <2>1, HeldKept, SameRounds
    <2>7. QED
      BY <2>1, <2>2, <2>3, <2>4, <2>5, <2>6
  <1>2. CASE ReadTrigger(q)
    <2> DEFINE c == svc[q].coll
               what == Decision(svc[q].enabled, row[c])
               s == IF what = "nothing" THEN NoRequest
                    ELSE [pc |-> what, coll |-> c, enabled |-> svc[q].enabled,
                          id |-> row[c].id, version |-> row[c].version]
    <2>1. svc[q] \in Request /\ c \in Collections /\ svc[q].enabled \in BOOLEAN
      BY <1>2 DEF ReadTrigger, Idle, Request
    <2>2. row[c] \in Row \cup {NoRow}
      BY <2>1
    <2>3. /\ what \in {"insert", "bump", "remove", "nothing"}
          /\ what \in {"bump", "remove"} => row[c] \in Row
      BY <2>2 DEF Decision
    <2>4. row[c].id \in Ids \cup {"NONE"} /\ row[c].version \in Nat
      BY <2>2 DEF Row, NoRow
    <2>5. s \in Request \cup {NoRequest}
      <3> HIDE DEF c, what
      <3>1. QED
        BY <2>1, <2>3, <2>4 DEF Request
    <2>6. svc' = [svc EXCEPT ![q] = s]
      BY <1>2 DEF ReadTrigger
    <2>7. \/ s = NoRequest
          \/ s.pc \notin {"bump", "remove"}
          \/ s.id \in Ids /\ (row'[s.coll].id = s.id => s.version = row'[s.coll].version)
      <3>1. row' = row
        BY <1>2 DEF ReadTrigger
      <3>2. what \in {"bump", "remove"} => row[c].id \in Ids
        BY <2>3, RowHasId
      <3> HIDE DEF c, what
      <3>3. QED
        BY <3>1, <3>2
    <2>8. RequestsAgree'
      <3> HIDE DEF s
      <3>1. QED
        BY <2>6, <2>7, RequestsEnd
    <2>9. HeldStaysClaimable' /\ RoundsAgree'
      BY <1>2, HeldKept, SameRounds DEF ReadTrigger
    <2>10. QED
      BY <1>2, <2>5, <2>6, <2>8, <2>9 DEF ReadTrigger
  <1>3. CASE Bump(q)
    <2> DEFINE c == svc[q].coll
    <2>1. svc[q] \in Request /\ c \in Collections /\ svc[q].version \in Nat
      BY <1>3 DEF Bump, Idle, Request
    <2>2. row[c] \in Row
      <3>1. svc[q].id \in Ids
        BY <1>3 DEF Bump, RequestsAgree
      <3>2. QED
        BY <1>3, <2>1, <3>1, RowHasId DEF Bump, Writable
    <2>3. Renewed(row[c], svc[q]) \in Row
      BY <2>1, <2>2 DEF Renewed, Row
    <2>4. RequestsAgree'
      BY <1>3, RequestsEnd DEF Bump
    <2>5. HeldStaysClaimable' /\ RoundsAgree'
      BY <1>3, HeldKept, SameRounds DEF Bump, Writable
    <2>6. QED
      BY <1>3, <2>1, <2>3, <2>4, <2>5 DEF Bump
  <1>4. CASE Insert(q)
    <2> DEFINE c == svc[q].coll
               r == [id |-> NewId, status |-> "PENDING", version |-> 1,
                     observed |-> 0]
    <2>1. c \in Collections
      BY <1>4 DEF Insert, Idle, Request
    <2>2. r \in Row
      BY <1>4, NewIdType DEF Insert, Row, Status
    <2>3. RequestsAgree'
      BY <1>4, RequestsEnd DEF Insert
    <2>4. ~Locked(c)
      BY <1>4 DEF Insert, Locked, HeldStaysClaimable, HeldRow
    <2>5. HeldStaysClaimable' /\ RoundsAgree'
      BY <1>4, <2>4, HeldKept, SameRounds DEF Insert
    <2>6. QED
      BY <1>4, <2>1, <2>2, <2>3, <2>5 DEF Insert
  <1>5. CASE Remove(q)
    <2>1. RequestsAgree'
      BY <1>5, RequestsEnd DEF Remove
    <2>2. HeldStaysClaimable' /\ RoundsAgree'
      BY <1>5, HeldKept, SameRounds DEF Remove, Writable
    <2>3. QED
      BY <1>5, <2>1, <2>2 DEF Remove
  <1>6. CASE EndsInVain(q) \/ RequestDies(q)
    <2>1. RequestsAgree'
      BY <1>6, RequestsEnd DEF EndsInVain, RequestDies
    <2>2. HeldStaysClaimable' /\ RoundsAgree'
      BY <1>6, HeldKept, SameRounds DEF EndsInVain, RequestDies
    <2>3. QED
      BY <1>6, <2>1, <2>2, ConstantsAssumption DEF EndsInVain, RequestDies, Fault
  <1>7. QED
    BY <1>1, <1>2, <1>3, <1>4, <1>5, <1>6 DEF RequestStep, RequestEnds

-----------------------------------------------------------------------------
\* The round that goes on to the next summary.
LEMMA SkippedRound ==
  ASSUME NEW round \in Round, round.cur \in Collections
  PROVE  /\ Skipped(round) \in Round
         /\ Skipped(round).pc = "picking" /\ Skipped(round).cur = "NONE"
         /\ Skipped(round).held = round.held
         /\ Skipped(round).expired = round.expired
         /\ Skipped(round).seen[round.cur] = NotSeen
         /\ \A c \in Collections \ {round.cur} :
              Skipped(round).seen[c] = round.seen[c]
  <1> DEFINE seen == [round.seen EXCEPT ![round.cur] = NotSeen]
  <1>1. /\ seen \in [Collections -> Seen \cup {NotSeen}]
        /\ seen[round.cur] = NotSeen
        /\ \A c \in Collections \ {round.cur} : seen[c] = round.seen[c]
    BY DEF Round
  <1> HIDE DEF seen
  <1>2. Skipped(round) = [pc |-> "picking", seen |-> seen, cur |-> "NONE",
                          held |-> round.held, expired |-> round.expired]
    BY DEF Skipped, seen
  <1>3. round.held \in SUBSET Collections /\ round.expired \in BOOLEAN
    BY DEF Round
  <1>4. QED
    BY <1>1, <1>2, <1>3 DEF Round

\* The steps of a round that neither claim a row nor commit.
LEMMA RoundGoesOn ==
  ASSUME HeldStaysClaimable, RoundsAgree, rec \in [Reconcilers -> Round],
         NEW r \in Reconcilers, NEW new \in Round, rec' = [rec EXCEPT ![r] = new],
         row' = row,
         new.held = {} \/ new.held = rec[r].held,
         \A c \in new.held :
           /\ c = new.cur => Claimable(new.seen[c], c)
           /\ c = new.cur \/ new.seen[c] = NotSeen,
         new.pc \in {"idle", "picking"} => new.cur = "NONE",
         new.pc \notin {"idle", "picking"} =>
           new.cur \in Collections /\ new.seen[new.cur] # NotSeen,
         new.pc = "claiming" => new.cur \notin new.held
  PROVE  HeldStaysClaimable' /\ RoundsAgree'
  <1>1. ASSUME NEW s \in Reconcilers
        PROVE  rec'[s] = IF s = r THEN new ELSE rec[s]
    OBVIOUS
  <1>2. RoundsAgree'
    BY <1>1 DEF RoundsAgree
  <1>3. HeldStaysClaimable'
    <2>1. \A s \in Reconcilers : rec'[s].held \subseteq rec[s].held
      BY <1>1
    <2>2. ASSUME NEW s \in Reconcilers, NEW c \in rec'[s].held
          PROVE  HeldRow(s, c)'
      <3>1. c \in rec[s].held
        BY <2>1
      <3>2. Exists(c)' /\ row'[c].status # "GENERATING"
        BY <3>1 DEF HeldStaysClaimable, HeldRow, Exists
      <3>3. \A u \in Reconcilers \ {s} : c \notin rec'[u].held
        BY <2>1, <3>1 DEF HeldStaysClaimable, HeldRow
      <3>4. c = rec'[s].cur => Claimable(rec[s].seen[c], c)'
        BY <1>1, <3>1 DEF HeldStaysClaimable, HeldRow, Claimable
      <3>5. QED
        BY <3>2, <3>3, <3>4 DEF HeldRow
    <2>3. QED
      BY <2>2 DEF HeldStaysClaimable
  <1>4. QED
    BY <1>2, <1>3

LEMMA RoundInv ==
  ASSUME IndInv, NEW r \in Reconcilers, RoundStep(r)
  PROVE  IndInv'
  <1> USE DEF IndInv, TypeOK
  <1>a. rec[r] \in Round
    OBVIOUS
  <1>b. rec[r].pc \notin {"idle", "picking"} =>
          /\ rec[r].cur \in Collections
          /\ rec[r].seen[rec[r].cur] \in Seen
    BY <1>a DEF RoundsAgree, Round
  <1>c. RequestsAgree' \/ row' # row \/ svc' # svc
    BY RequestsKept
  <1>1. CASE Scan(r)
    <2> DEFINE seen == [c \in Collections |->
                         IF NeedsReconciliation(row[c])
                         THEN [id |-> row[c].id, version |-> row[c].version]
                         ELSE NotSeen]
               new == [pc |-> "picking", seen |-> seen, cur |-> "NONE",
                       held |-> {}, expired |-> FALSE]
    <2>1. ASSUME NEW c \in Collections, NeedsReconciliation(row[c])
          PROVE  [id |-> row[c].id, version |-> row[c].version] \in Seen
      <3>1. row[c] \in Row
        BY <2>1 DEF NeedsReconciliation
      <3>2. QED
        BY <3>1 DEF Row, Seen
    <2>2. seen \in [Collections -> Seen \cup {NotSeen}]
      BY <2>1
    <2> HIDE DEF seen
    <2>3. new \in Round
      BY <2>2 DEF Round
    <2>4. rec' = [rec EXCEPT ![r] = new]
      BY <1>1 DEF Scan, seen
    <2>5. HeldStaysClaimable' /\ RoundsAgree'
      BY <1>1, <2>3, <2>4, RoundGoesOn DEF Scan
    <2>6. QED
      BY <1>1, <1>c, <2>3, <2>4, <2>5 DEF Scan
  <1>2. ASSUME NEW c \in Collections, Pick(r, c)
        PROVE  IndInv'
    <2> DEFINE s == Reread(rec[r], c)
               seen == [rec[r].seen EXCEPT ![c] = s]
               new == [pc |-> "claiming", seen |-> seen, cur |-> c,
                       held |-> rec[r].held, expired |-> rec[r].expired]
    <2>1. rec[r].seen[c] \in Seen
      BY <1>2, <1>a DEF Pick, Round
    <2>2. s \in Seen
      <3>1. CASE rec[r].expired
        <4>1. row[c] \in Row
          BY <1>2, <2>1, <3>1, RowHasId DEF Pick, Seen
        <4>2. QED
          BY <2>1, <3>1, <4>1 DEF Reread, Seen, Row
      <3>2. CASE ~rec[r].expired
        BY <2>1, <3>2 DEF Reread
      <3>3. QED
        BY <3>1, <3>2
    <2> HIDE DEF s
    <2>3. /\ seen \in [Collections -> Seen \cup {NotSeen}]
          /\ seen[c] = s
          /\ \A d \in Collections \ {c} : seen[d] = rec[r].seen[d]
      BY <1>a, <2>2 DEF Round
    <2>4. s # NotSeen
      BY <2>2, ConstantsAssumption DEF Seen, NotSeen
    <2> HIDE DEF seen
    <2>5. new \in Round
      BY <1>a, <2>3 DEF Round
    <2>6. rec' = [rec EXCEPT ![r] = new]
      BY <1>2 DEF Pick, s, seen
    <2>7. rec[r].cur = "NONE" /\ "NONE" \notin Collections
      BY <1>2, ConstantsAssumption DEF Pick, RoundsAgree
    <2>8. \A d \in rec[r].held : d \in Collections /\ rec[r].seen[d] = NotSeen
      BY <1>a, <2>7 DEF RoundsAgree, Round
    <2>9. c \notin rec[r].held
      BY <1>2, <2>8 DEF Pick
    <2>10. HeldStaysClaimable' /\ RoundsAgree'
      <3>1. /\ new.held = rec[r].held /\ new.pc = "claiming" /\ new.cur = c
            /\ new.seen[c] # NotSeen
            /\ \A d \in new.held : new.seen[d] = NotSeen /\ d # c
        BY <2>3, <2>4, <2>8, <2>9
      <3>2. row' = row
        BY <1>2 DEF Pick
      <3> HIDE DEF new
      <3>3. QED
        BY <2>5, <2>6, <3>1, <3>2, RoundGoesOn
    <2>11. QED
      BY <1>2, <1>c, <2>5, <2>6, <2>10 DEF Pick
  <1>3. CASE RoundDies(r) \/ EndRound(r) \/ \E c \in Collections : PickRaises(r, c)
    <2>1. rec' = [rec EXCEPT ![r] = IdleRound] /\ UNCHANGED <<coll, row, svc, tasks, updates>>
      BY <1>3 DEF RoundDies, EndRound, PickRaises
    <2>2. HeldStaysClaimable' /\ RoundsAgree'
      <3> DEFINE new == IdleRound
      <3>1. /\ new \in Round /\ new.held = {}
            /\ new.pc = "idle" /\ new.cur = "NONE"
        BY IdleRoundType DEF IdleRound
      <3>2. rec' = [rec EXCEPT ![r] = new] /\ row' = row
        BY <2>1
      <3> HIDE DEF new
      <3>3. QED
        BY <3>1, <3>2, RoundGoesOn
    <2>3. faults' \in 0..MaxFaults
      BY <1>3, ConstantsAssumption DEF RoundDies, EndRound, PickRaises, Fault
    <2>4. QED
      BY <1>c, <2>1, <2>2, <2>3, IdleRoundType
  <1>4. CASE Claim(r)
    <2> DEFINE c == rec[r].cur
               new == [pc |-> "claimed", seen |-> rec[r].seen, cur |-> c,
                       held |-> rec[r].held \cup {c}, expired |-> rec[r].expired]
    <2>1. /\ c \in Collections /\ rec[r].seen[c] \in Seen
          /\ Claimable(rec[r].seen[c], c) /\ ~Locked(c)
          /\ rec' = [rec EXCEPT ![r] = new] /\ UNCHANGED <<coll, row, svc, tasks, updates, faults>>
      BY <1>4, <1>b DEF Claim
    <2>2. new \in Round
      BY <1>a, <2>1 DEF Round
    <2>3. Exists(c)
      BY <2>1, RowHasId DEF Claimable, Exists, Seen
    <2>4. rec[r].seen[c] # NotSeen
      BY <2>1, ConstantsAssumption DEF Seen, NotSeen
    <2> HIDE DEF c
    <2>5. \A s \in Reconcilers : rec'[s] = IF s = r THEN new ELSE rec[s]
      BY <2>1
    <2>6. RoundsAgree'
      BY <2>1, <2>4, <2>5 DEF RoundsAgree, c
    <2>7. HeldStaysClaimable'
      <3>1. ASSUME NEW s \in Reconcilers, NEW d \in rec'[s].held
            PROVE  HeldRow(s, d)'
        <4>1. CASE s = r /\ d = c
          BY <2>1, <2>3, <2>5, <4>1 DEF HeldRow, Claimable, Exists, Locked
        <4>2. CASE ~(s = r /\ d = c)
          <5>1. d \in rec[s].held
            BY <2>5, <4>2
          <5>2. d # c
            BY <2>1, <5>1 DEF Locked
          <5>3. QED
            BY <2>1, <2>5, <5>1, <5>2 DEF HeldStaysClaimable, HeldRow, Exists, Claimable, c
        <4>3. QED
          BY <4>1, <4>2
      <3>2. QED
        BY <3>1 DEF HeldStaysClaimable
    <2>8. QED
      BY <1>c, <2>1, <2>2, <2>6, <2>7
  <1>5. CASE ClaimFails(r) \/ DispatchFails(r)
    <2>1. /\ rec[r].pc \in {"claiming", "claimed"}
          /\ rec' = [rec EXCEPT ![r] = Skipped(rec[r])]
          /\ UNCHANGED <<coll, row, svc, tasks, updates>>
      BY <1>5 DEF ClaimFails, DispatchFails
    <2>2. rec[r].cur \in Collections
      BY <1>b, <2>1
    <2>3. \A d \in rec[r].held : d \in Collections /\ Skipped(rec[r]).seen[d] = NotSeen
      BY <1>a, <2>2, SkippedRound DEF RoundsAgree, Round
    <2>4. HeldStaysClaimable' /\ RoundsAgree'
      <3> DEFINE new == Skipped(rec[r])
      <3>1. /\ new \in Round /\ new.pc = "picking" /\ new.cur = "NONE"
            /\ new.held = rec[r].held /\ new.held \subseteq Collections
        BY <1>a, <2>2, SkippedRound DEF Round
      <3>2. \A c \in new.held : new.seen[c] = NotSeen /\ c # new.cur
        BY <2>3, <3>1, ConstantsAssumption
      <3>3. rec' = [rec EXCEPT ![r] = new] /\ row' = row
        BY <2>1
      <3> HIDE DEF new
      <3>4. QED
        BY <3>1, <3>2, <3>3, RoundGoesOn
    <2>5. faults' \in 0..MaxFaults
      BY <1>5, ConstantsAssumption DEF ClaimFails, DispatchFails, Fault
    <2>6. QED
      BY <1>a, <1>c, <2>1, <2>2, <2>4, <2>5, SkippedRound
  <1>6. CASE Dispatch(r)
    <2> DEFINE c == rec[r].cur
               t == Queued(rec[r].seen[c].id, c, rec[r].seen[c].version)
               new == [rec[r] EXCEPT !.pc = "sent"]
    <2>1. c \in Collections /\ rec[r].seen[c] \in Seen
      BY <1>6, <1>b DEF Dispatch
    <2>2. t \in Task
      <3>1. NewMessage \in Messages
        BY <1>6, NewMessageType DEF Dispatch
      <3>2. QED
        BY <2>1, <3>1 DEF Queued, Task, Seen
    <2>3. /\ new \in Round /\ new.pc = "sent" /\ new.seen = rec[r].seen
          /\ new.cur = c /\ new.held = rec[r].held
      BY <1>a DEF Round
    <2> HIDE DEF new
    <2>4. rec' = [rec EXCEPT ![r] = new]
      BY <1>6 DEF Dispatch, new
    <2>5. HeldStaysClaimable' /\ RoundsAgree'
      <3>1. \A d \in new.held :
              /\ d = new.cur => Claimable(new.seen[d], d)
              /\ d = new.cur \/ new.seen[d] = NotSeen
        BY <2>3 DEF HeldStaysClaimable, HeldRow, RoundsAgree
      <3>2. new.cur \in Collections /\ new.seen[new.cur] # NotSeen
        BY <2>1, <2>3, ConstantsAssumption DEF Seen, NotSeen
      <3>3. row' = row
        BY <1>6 DEF Dispatch
      <3>4. QED
        BY <2>3, <2>4, <3>1, <3>2, <3>3, RoundGoesOn
    <2>6. tasks' = tasks \cup {t}
      BY <1>6 DEF Dispatch
    <2>7. QED
      BY <1>6, <1>c, <2>2, <2>3, <2>4, <2>5, <2>6 DEF Dispatch
  <1>7. CASE CommitClaim(r)
    <2> DEFINE seen == Skipped(rec[r]).seen
               new == [pc |-> "picking", seen |-> seen, cur |-> "NONE",
                       held |-> {}, expired |-> TRUE]
    <2>1. rec[r].cur \in Collections
      BY <1>7, <1>b DEF CommitClaim
    <2>2. seen \in [Collections -> Seen \cup {NotSeen}]
      BY <1>a, <2>1, SkippedRound DEF Round
    <2> HIDE DEF seen
    <2>3. new \in Round
      BY <2>2 DEF Round
    <2>4. rec' = [rec EXCEPT ![r] = new]
      BY <1>7 DEF CommitClaim, seen
    <2>5. ASSUME NEW c \in Collections
          PROVE  /\ row'[c] \in Row \cup {NoRow}
                 /\ row'[c].id = row[c].id /\ row'[c].version = row[c].version
                 /\ c \notin rec[r].held => row'[c] = row[c]
      <3>1. row'[c] = IF c \in rec[r].held THEN Marked(row[c], "GENERATING") ELSE row[c]
        BY <1>7 DEF CommitClaim
      <3>2. CASE c \in rec[r].held
        <4>1. row[c] \in Row
          BY <3>2, RowHasId DEF HeldStaysClaimable, HeldRow, Exists
        <4>2. QED
          BY <3>1, <3>2, <4>1, MarkedRow DEF Status
      <3>3. CASE c \notin rec[r].held
        BY <3>1, <3>3
      <3>4. QED
        BY <3>2, <3>3
    <2>6. row' \in [Collections -> Row \cup {NoRow}]
      <3>1. row' = [c \in Collections |-> row'[c]]
        BY <1>7 DEF CommitClaim
      <3>2. QED
        BY <2>5, <3>1
    <2>7. RequestsAgree'
      BY <1>7, <2>5, RequestsKept DEF CommitClaim
    <2>8. \A s \in Reconcilers : rec'[s] = IF s = r THEN new ELSE rec[s]
      BY <2>4
    <2>9. RoundsAgree'
      BY <2>8 DEF RoundsAgree
    <2>10. HeldStaysClaimable'
      <3>1. ASSUME NEW s \in Reconcilers, NEW c \in rec'[s].held
            PROVE  HeldRow(s, c)'
        <4>1. s # r /\ c \in rec[s].held /\ rec'[s] = rec[s]
          BY <2>8
        <4>2. c \in Collections /\ c \notin rec[r].held
          BY <4>1 DEF HeldStaysClaimable, HeldRow, Round
        <4>3. row'[c] = row[c]
          BY <2>5, <4>2
        <4>4. QED
          BY <2>8, <4>1, <4>3 DEF HeldStaysClaimable, HeldRow, Exists, Claimable
      <3>2. QED
        BY <3>1 DEF HeldStaysClaimable
    <2>11. QED
      BY <1>7, <2>3, <2>4, <2>6, <2>7, <2>9, <2>10 DEF CommitClaim
  <1>8. QED
    BY <1>1, <1>2, <1>3, <1>4, <1>5, <1>6, <1>7 DEF RoundStep, RoundWorks

-----------------------------------------------------------------------------
LEMMA TaskInv ==
  ASSUME IndInv, NEW t \in tasks, TaskStep(t)
  PROVE  IndInv'
  <1> USE DEF IndInv, TypeOK
  <1>1. /\ t \in Task /\ t.coll \in Collections /\ t.id \in Ids
        /\ t.version \in Nat \ {0}
    BY DEF Task
  <1>2. Expected(t) => row[t.coll] \in Row /\ ~Locked(t.coll)
    <2>1. Expected(t) => row[t.coll] \in Row
      BY <1>1, RowHasId DEF Expected
    <2>2. Expected(t) => ~Locked(t.coll)
      BY DEF Expected, Locked, HeldStaysClaimable, HeldRow
    <2>3. QED
      BY <2>1, <2>2
  \* A step that only moves the task on.
  <1>3. ASSUME UNCHANGED <<coll, row, svc, rec, updates>>,
               faults' \in 0..MaxFaults, tasks' \subseteq Task
        PROVE  IndInv'
    BY <1>3, HeldKept, SameRounds, RequestsKept
  <1>4. CASE StartTask(t)
    <2>1. \A pc \in {"generating", "failing"} : [t EXCEPT !.pc = pc] \in Task
      BY <1>1 DEF Task
    <2>2. tasks' \subseteq Task
      BY <1>4, <2>1 DEF StartTask, Done, Becomes
    <2>3. QED
      BY <1>3, <1>4, <2>2 DEF StartTask
  <1>5. CASE GenerationFails(t)
    <2>1. [t EXCEPT !.pc = "failing"] \in Task
      BY <1>1 DEF Task
    <2>2. faults' \in 0..MaxFaults
      BY <1>5, ConstantsAssumption DEF GenerationFails, Fault
    <2>3. QED
      BY <1>3, <1>5, <2>1, <2>2 DEF GenerationFails, Becomes
  <1>6. CASE ReadCollection(t)
    <2> DEFINE k == [t EXCEPT !.pc = "read"]
               l == [k EXCEPT !.enabled = coll[t.coll].enabled]
               u == [l EXCEPT !.unchanged = TRUE]
    <2>1. k \in Task
      BY <1>1 DEF Task
    <2>2. coll[t.coll].enabled \in BOOLEAN
      BY <1>1 DEF Collection
    <2>3. l \in Task
      <3> HIDE DEF k
      <3>1. QED
        BY <2>1, <2>2 DEF Task
    <2>4. u \in Task
      <3> HIDE DEF l
      <3>1. QED
        BY <2>3 DEF Task
    <2>5. tasks' = tasks \ {t} \/ tasks' = (tasks \ {t}) \cup {u}
      BY <1>6 DEF ReadCollection, Done, Becomes
    <2>6. QED
      BY <1>3, <1>6, <2>4, <2>5 DEF ReadCollection
  <1>7. CASE CompleteSummary(t)
    <2> DEFINE new == [id |-> t.id, status |-> "COMPLETE",
                       version |-> row[t.coll].version, observed |-> t.version]
    <2>1. /\ Expected(t) /\ row' = [row EXCEPT ![t.coll] = new]
          /\ UNCHANGED <<svc, rec, updates, faults>>
      BY <1>7 DEF CompleteSummary
    <2>2. /\ new \in Row /\ new.id = row[t.coll].id
          /\ new.version = row[t.coll].version
      BY <1>1, <1>2, <2>1 DEF Row, Status, Expected
    <2> HIDE DEF new
    <2>3. /\ row' \in [Collections -> Row \cup {NoRow}]
          /\ \A c \in Collections :
               /\ row'[c].id = row[c].id /\ row'[c].version = row[c].version
               /\ Locked(c) => row'[c] = row[c]
      BY <1>1, <1>2, <2>1, <2>2
    <2>4. RequestsAgree'
      BY <2>1, <2>3, RequestsKept
    <2>5. HeldStaysClaimable' /\ RoundsAgree'
      BY <2>1, <2>3, HeldKept, SameRounds
    <2>6. coll' \in [Collections -> Collection] /\ tasks' \subseteq Task
      <3>1. \A u \in tasks : [u EXCEPT !.unchanged = FALSE] \in Task
        BY DEF Task
      <3>2. [coll[t.coll] EXCEPT !.text = "summary"] \in Collection
        BY <1>1 DEF Collection
      <3>3. \/ /\ coll' = [coll EXCEPT ![t.coll].text = "summary"]
               /\ tasks' = {IF u.coll = t.coll
                            THEN [u EXCEPT !.unchanged = FALSE] ELSE u :
                              u \in tasks \ {t}}
            \/ coll' = coll /\ tasks' = tasks \ {t}
        BY <1>7 DEF CompleteSummary, Done
      <3>4. QED
        BY <3>1, <3>2, <3>3
    <2>7. QED
      BY <2>1, <2>3, <2>4, <2>5, <2>6
  <1>8. CASE CompletionIgnored(t)
    BY <1>3, <1>8 DEF CompletionIgnored, Done
  <1>9. CASE FailSummary(t)
    <2>1. /\ row' = row \/ (Expected(t) /\ row' =
                [row EXCEPT ![t.coll] = Marked(row[t.coll], "FAILED")])
          /\ tasks' = tasks \ {t} /\ UNCHANGED <<coll, svc, rec, updates, faults>>
      BY <1>9 DEF FailSummary, Done
    <2>2. /\ row' \in [Collections -> Row \cup {NoRow}]
          /\ \A c \in Collections :
               /\ row'[c].id = row[c].id /\ row'[c].version = row[c].version
               /\ Locked(c) => row'[c] = row[c]
      <3>1. CASE row' = row
        BY <3>1
      <3>2. CASE Expected(t) /\ row' = [row EXCEPT ![t.coll] = Marked(row[t.coll], "FAILED")]
        BY <1>1, <1>2, <3>2, MarkedRow DEF Status
      <3>3. QED
        BY <2>1, <3>1, <3>2
    <2>3. RequestsAgree'
      BY <2>1, <2>2, RequestsKept
    <2>4. HeldStaysClaimable' /\ RoundsAgree'
      BY <2>1, <2>2, HeldKept, SameRounds
    <2>5. QED
      BY <2>1, <2>2, <2>3, <2>4
  <1>10. CASE LoseTask(t)
    <2>1. faults' \in 0..MaxFaults
      BY <1>10, ConstantsAssumption DEF LoseTask, Fault
    <2>2. QED
      BY <1>3, <1>10, <2>1 DEF LoseTask, Done
  <1>11. CASE RedeliverTask(t)
    <2>1. NewMessage \in Messages
      BY <1>11, NewMessageType DEF RedeliverTask
    <2>2. Queued(t.id, t.coll, t.version) \in Task
      BY <1>1, <2>1 DEF Queued, Task
    <2>3. faults' \in 0..MaxFaults
      BY <1>11, ConstantsAssumption DEF RedeliverTask, Fault
    <2>4. QED
      BY <1>3, <1>11, <2>2, <2>3 DEF RedeliverTask
  <1>12. QED
    BY <1>4, <1>5, <1>6, <1>7, <1>8, <1>9, <1>10, <1>11 DEF TaskStep, TaskWorks

LEMMA StutterInv ==
  ASSUME IndInv, UNCHANGED vars
  PROVE  IndInv'
  <1>1. /\ coll' = coll /\ row' = row /\ svc' = svc /\ rec' = rec
        /\ tasks' = tasks /\ updates' = updates /\ faults' = faults
    BY DEF vars
  <1>2. TypeOK /\ HeldStaysClaimable /\ RoundsAgree /\ RequestsAgree
    BY DEF IndInv
  <1>3. TypeOK'
    BY <1>1, <1>2 DEF TypeOK
  <1>4. HeldStaysClaimable' /\ RoundsAgree'
    BY <1>1, <1>2, HeldKept, SameRounds DEF TypeOK
  <1>5. RequestsAgree'
    BY <1>1, <1>2, RequestsKept DEF TypeOK
  <1>6. QED
    BY <1>3, <1>4, <1>5 DEF IndInv

-----------------------------------------------------------------------------
\* The invariant: what every session, request and task of CollectionSummary
\* relies on between two of its statements.
THEOREM Invariance == Spec => []IndInv
  <1>1. IndInv /\ [Next]_vars => IndInv'
    BY RequestInv, RoundInv, TaskInv, StutterInv DEF Next
  <1>2. QED
    BY InitInv, <1>1, PTL DEF Spec

\* Rows, requests, rounds and tasks keep their types: a commit of a claim
\* never writes a row that another request has deleted.
THEOREM TypeCorrect == Spec => []TypeOK
  <1>1. IndInv => TypeOK
    BY DEF IndInv
  <1>2. QED
    BY Invariance, <1>1, PTL

\* What a session has claimed is still claimable when it commits, whoever
\* overlaps (CollectionSummaryReconciler).
THEOREM HeldRowsAreKept == Spec => []HeldStaysClaimable
  <1>1. IndInv => HeldStaysClaimable
    BY DEF IndInv
  <1>2. QED
    BY Invariance, <1>1, PTL

-----------------------------------------------------------------------------
(* Who writes what                                                         *)

\* Only requests and completed generations write collections.
LEMMA CollectionsWritten ==
  ASSUME [Next]_vars
  PROVE  \/ \E q \in Clients, c \in Collections :
              CreateCollection(q, c) \/ UpdateCollection(q, c) \/ DeleteCollection(q, c)
         \/ \E t \in tasks : CompleteSummary(t)
         \/ UNCHANGED coll
  <1>1. ASSUME NEW q \in Clients, RequestEnds(q) \/ RequestDies(q)
        PROVE  UNCHANGED coll
    BY <1>1 DEF RequestEnds, RequestDies, ReadTrigger, Bump, Insert, Remove, EndsInVain
  <1>2. ASSUME NEW r \in Reconcilers, RoundStep(r)
        PROVE  UNCHANGED coll
    BY <1>2 DEF RoundStep, RoundWorks, Scan, Pick, PickRaises, Claim, ClaimFails,
                Dispatch, DispatchFails, CommitClaim, EndRound, RoundDies
  <1>3. ASSUME NEW t \in tasks, TaskStep(t), ~CompleteSummary(t)
        PROVE  UNCHANGED coll
    BY <1>3 DEF TaskStep, TaskWorks, StartTask, ReadCollection, CompletionIgnored,
                FailSummary, GenerationFails, LoseTask, RedeliverTask
  <1>4. UNCHANGED vars => UNCHANGED coll
    BY DEF vars
  <1>5. QED
    BY <1>1, <1>2, <1>3, <1>4 DEF Next, RequestStep

\* Requests, the commits of claims and two of the callbacks write rows.
LEMMA SummariesWritten ==
  ASSUME [Next]_vars
  PROVE  \/ \E q \in Clients : Bump(q) \/ Insert(q) \/ Remove(q)
         \/ \E r \in Reconcilers : CommitClaim(r)
         \/ \E t \in tasks : CompleteSummary(t) \/ FailSummary(t)
         \/ UNCHANGED row
  <1>1. ASSUME NEW q \in Clients, RequestStep(q), ~Bump(q), ~Insert(q), ~Remove(q)
        PROVE  UNCHANGED row
    BY <1>1 DEF RequestStep, RequestEnds, RequestDies, ReadTrigger, EndsInVain,
                CreateCollection, UpdateCollection, DeleteCollection
  <1>2. ASSUME NEW r \in Reconcilers, RoundStep(r), ~CommitClaim(r)
        PROVE  UNCHANGED row
    BY <1>2 DEF RoundStep, RoundWorks, Scan, Pick, PickRaises, Claim, ClaimFails,
                Dispatch, DispatchFails, EndRound, RoundDies
  <1>3. ASSUME NEW t \in tasks, TaskStep(t), ~CompleteSummary(t), ~FailSummary(t)
        PROVE  UNCHANGED row
    BY <1>3 DEF TaskStep, TaskWorks, StartTask, ReadCollection, CompletionIgnored,
                GenerationFails, LoseTask, RedeliverTask
  <1>4. UNCHANGED vars => UNCHANGED row
    BY DEF vars
  <1>5. QED
    BY <1>1, <1>2, <1>3, <1>4 DEF Next

\* The row a completed generation leaves.
LEMMA CompletedRow ==
  ASSUME IndInv, NEW t \in tasks, CompleteSummary(t)
  PROVE  /\ t.coll \in Collections /\ row[t.coll] \in Row
         /\ row[t.coll].status = "GENERATING"
         /\ row' = [row EXCEPT ![t.coll] =
                      [id |-> row[t.coll].id, status |-> "COMPLETE",
                       version |-> row[t.coll].version,
                       observed |-> row[t.coll].version]]
  <1>1. t.coll \in Collections /\ t.id \in Ids
    BY DEF IndInv, TypeOK, Task
  <1>2. Expected(t)
    BY DEF CompleteSummary
  <1>3. row[t.coll].id = t.id /\ row[t.coll].version = t.version
        /\ row[t.coll].status = "GENERATING"
    BY <1>2 DEF Expected
  <1>4. row[t.coll] \in Row
    BY <1>1, <1>3, RowHasId DEF IndInv, TypeOK
  <1>5. row' = [row EXCEPT ![t.coll] =
                  [id |-> t.id, status |-> "COMPLETE",
                   version |-> row[t.coll].version, observed |-> t.version]]
    BY DEF CompleteSummary
  <1>6. QED
    BY <1>1, <1>3, <1>4, <1>5

\* What DescriptionFollowsSummary says of one step.
DescribedByCompletion ==
    \A c \in Collections :
      (coll'[c].text = "summary" /\ coll[c].text = "user") =>
        /\ Live(c)
        /\ row[c].status = "GENERATING" /\ row'[c].status = "COMPLETE"
        /\ row'[c].observed = row[c].version

\* However requests, rounds and repeated deliveries overlap: the pipeline
\* writes a description only in the transaction that completes the current
\* version of the summary, and to no deleted collection (on_summary_generated).
THEOREM DescriptionsFollowSummaries == Spec => DescriptionFollowsSummary
  <1>1. ASSUME IndInv, [Next]_vars
        PROVE  [DescribedByCompletion]_vars
    <2> SUFFICES ASSUME NEW c \in Collections,
                        coll'[c].text = "summary", coll[c].text = "user"
                 PROVE  /\ Live(c)
                        /\ row[c].status = "GENERATING" /\ row'[c].status = "COMPLETE"
                        /\ row'[c].observed = row[c].version
      BY DEF DescribedByCompletion
    <2>1. coll \in [Collections -> Collection]
          /\ row \in [Collections -> Row \cup {NoRow}]
      BY <1>1 DEF IndInv, TypeOK
    <2>2. CASE UNCHANGED coll
      BY <2>2
    <2>3. ASSUME NEW q \in Clients, NEW d \in Collections,
                 CreateCollection(q, d) \/ UpdateCollection(q, d) \/ DeleteCollection(q, d)
          PROVE  FALSE
      <3>1. CASE CreateCollection(q, d) \/ UpdateCollection(q, d)
        <4>1. PICK e \in BOOLEAN :
                coll' = [coll EXCEPT ![d] = [status |-> "ACTIVE", enabled |-> e,
                                             text |-> "user"]]
          BY <3>1 DEF CreateCollection, UpdateCollection
        <4>2. QED
          BY <2>1, <4>1
      <3>2. CASE DeleteCollection(q, d)
        <4>1. coll' = [coll EXCEPT ![d].status = "DELETED"]
          BY <3>2 DEF DeleteCollection
        <4>2. coll'[c].text = coll[c].text
          BY <2>1, <4>1 DEF Collection
        <4>3. QED
          BY <4>2
      <3>3. QED
        BY <2>3, <3>1, <3>2
    <2>4. ASSUME NEW t \in tasks, CompleteSummary(t)
          PROVE  /\ Live(c)
                 /\ row[c].status = "GENERATING" /\ row'[c].status = "COMPLETE"
                 /\ row'[c].observed = row[c].version
      <3>1. \/ Describes(t) /\ coll' = [coll EXCEPT ![t.coll].text = "summary"]
            \/ coll' = coll
        BY <2>4 DEF CompleteSummary
      <3>2. Live(t.coll) /\ t.coll = c
        BY <2>1, <3>1 DEF Describes
      <3>3. /\ row[c].status = "GENERATING"
            /\ row' = [row EXCEPT ![c] =
                         [id |-> row[c].id, status |-> "COMPLETE",
                          version |-> row[c].version,
                          observed |-> row[c].version]]
        BY <1>1, <2>4, <3>2, CompletedRow
      <3>4. QED
        BY <2>1, <3>2, <3>3
    <2>5. QED
      BY <1>1, <2>2, <2>3, <2>4, CollectionsWritten
  <1>2. QED
    BY <1>1, Invariance, PTL DEF Spec, DescriptionFollowsSummary, DescribedByCompletion

-----------------------------------------------------------------------------
(* The atomic life of summaries, for requests that do not overlap          *)

SingleClient == \A p, q \in Clients : p = q

LEMMA InitLifecycle == Init => Lifecycle!Init
  BY DEF Init, Lifecycle!Init, NoRow, Lifecycle!NoRow

\* A step on one collection, as the lifecycle sees it.
LEMMA TextOf ==
  ASSUME coll \in [Collections -> Collection], NEW c \in Collections, NEW new,
         coll' = [coll EXCEPT ![c] = new]
  PROVE  [d \in Collections |-> coll[d].text]' =
           [[d \in Collections |-> coll[d].text] EXCEPT ![c] = new.text]
  OBVIOUS

LEMMA CollectionLifecycle ==
  ASSUME IndInv, UNCHANGED row, NEW q \in Clients, NEW c \in Collections,
         CreateCollection(q, c) \/ UpdateCollection(q, c) \/ DeleteCollection(q, c)
  PROVE  [Lifecycle!Next]_Lifecycle!vars
  <1>1. coll \in [Collections -> Collection]
    BY DEF IndInv, TypeOK
  <1>2. CASE CreateCollection(q, c) \/ UpdateCollection(q, c)
    <2>1. PICK e \in BOOLEAN :
            coll' = [coll EXCEPT ![c] = [status |-> "ACTIVE", enabled |-> e,
                                         text |-> "user"]]
      BY <1>2 DEF CreateCollection, UpdateCollection
    <2>2. [d \in Collections |-> coll[d].text]' =
            [[d \in Collections |-> coll[d].text] EXCEPT ![c] = "user"]
      BY <1>1, <2>1
    <2>3. Lifecycle!Describe(c)
      BY <2>2 DEF Lifecycle!Describe
    <2>4. QED
      BY <2>3 DEF Lifecycle!Next
  <1>3. CASE DeleteCollection(q, c)
    <2>1. coll' = [coll EXCEPT ![c].status = "DELETED"]
      BY <1>3 DEF DeleteCollection
    <2>2. \A d \in Collections : coll'[d].text = coll[d].text
      BY <1>1, <2>1 DEF Collection
    <2>3. UNCHANGED [d \in Collections |-> coll[d].text]
      BY <2>2
    <2>4. QED
      BY <2>3 DEF Lifecycle!vars
  <1>4. QED
    BY <1>2, <1>3

\* A request that writes a row asks for, renews or drops a summary.
LEMMA RequestLifecycle ==
  ASSUME SingleClient, IndInv, NEW q \in Clients, Bump(q) \/ Insert(q) \/ Remove(q)
  PROVE  Lifecycle!Next
  <1> DEFINE c == svc[q].coll
  <1>1. row \in [Collections -> Row \cup {NoRow}]
    BY DEF IndInv, TypeOK
  <1>2. c \in Collections /\ svc[q].version \in Nat
    BY DEF Bump, Insert, Remove, Idle, Request, IndInv, TypeOK
  <1>3. UNCHANGED [d \in Collections |-> coll[d].text]
    <2>1. UNCHANGED coll
      BY DEF Bump, Insert, Remove
    <2>2. QED
      BY <2>1
  <1>4. ASSUME svc[q].pc \in {"bump", "remove"}, Writable(q), ~Idle(q)
        PROVE  row[c] \in Row /\ svc[q].version = row[c].version
    <2>1. svc[q].id \in Ids /\ row[c].id = svc[q].id
      BY <1>4 DEF IndInv, RequestsAgree, Writable
    <2>2. row[c] \in Row
      BY <1>1, <1>2, <2>1, RowHasId
    <2>3. svc[q].version = row[c].version
      BY <1>4, <2>1 DEF IndInv, RequestsAgree, SingleClient
    <2>4. QED
      BY <2>2, <2>3
  <1>5. CASE Bump(q)
    <2>1. row[c] \in Row /\ svc[q].version = row[c].version
      BY <1>4, <1>5 DEF Bump
    <2>2. Renewed(row[c], svc[q]) = [row[c] EXCEPT !.version = row[c].version + 1]
      BY <2>1 DEF Renewed, Row
    <2>3. row' = [row EXCEPT ![c] = Renewed(row[c], svc[q])]
      BY <1>5 DEF Bump
    <2>4. row[c] # Lifecycle!NoRow
      BY <2>1, RowHasId DEF Lifecycle!NoRow, NoRow
    <2> HIDE DEF c
    <2>5. row' = [row EXCEPT ![c].version = row[c].version + 1]
      BY <2>2, <2>3
    <2>6. Lifecycle!Renew(c)
      BY <1>3, <2>4, <2>5 DEF Lifecycle!Renew
    <2>7. QED
      BY <1>2, <2>6 DEF Lifecycle!Next
  <1>6. CASE Insert(q)
    <2>1. ~Exists(c) /\ NewId \in FreeIds /\ NewId \in Ids
      BY <1>6, NewIdType DEF Insert
    <2>2. row[c] = Lifecycle!NoRow
      BY <1>1, <1>2, <2>1, RowHasId DEF Exists, NoRow, Lifecycle!NoRow
    <2>3. \A d \in Collections : row[d].id # NewId
      BY <2>1 DEF FreeIds
    <2>4. row' = [row EXCEPT ![c] = [id |-> NewId, status |-> "PENDING",
                                     version |-> 1, observed |-> 0]]
      BY <1>6 DEF Insert
    <2> HIDE DEF c
    <2>5. Lifecycle!Enable(c)
      BY <1>3, <2>1, <2>2, <2>3, <2>4 DEF Lifecycle!Enable
    <2>6. QED
      BY <1>2, <2>5 DEF Lifecycle!Next
  <1>7. CASE Remove(q)
    <2>1. row[c] # Lifecycle!NoRow
      BY <1>4, <1>7, RowHasId DEF Remove, Lifecycle!NoRow, NoRow
    <2>2. row' = [row EXCEPT ![c] = Lifecycle!NoRow]
      BY <1>7 DEF Remove, Lifecycle!NoRow, NoRow
    <2> HIDE DEF c
    <2>3. Lifecycle!Disable(c)
      BY <1>3, <2>1, <2>2 DEF Lifecycle!Disable
    <2>4. QED
      BY <1>2, <2>3 DEF Lifecycle!Next
  <1>8. QED
    BY <1>5, <1>6, <1>7

\* The commit of a claim starts every generation its session holds.
LEMMA CommitLifecycle ==
  ASSUME IndInv, NEW r \in Reconcilers, CommitClaim(r)
  PROVE  [Lifecycle!Next]_Lifecycle!vars
  <1> DEFINE C == rec[r].held
  <1>1. row \in [Collections -> Row \cup {NoRow}] /\ C \subseteq Collections
    BY DEF IndInv, TypeOK, Round
  <1>2. ASSUME NEW c \in C
        PROVE  row[c] \in Row /\ row[c].status \in {"PENDING", "COMPLETE", "FAILED"}
    <2>1. Exists(c) /\ row[c].status # "GENERATING"
      BY DEF IndInv, HeldStaysClaimable, HeldRow
    <2>2. row[c] \in Row
      BY <1>1, <2>1, RowHasId DEF Exists
    <2>3. QED
      BY <2>1, <2>2 DEF Row, Status
  <1>3. UNCHANGED [d \in Collections |-> coll[d].text]
    <2>1. UNCHANGED coll
      BY DEF CommitClaim
    <2>2. QED
      BY <2>1
  <1>4. row' = [c \in Collections |->
                  IF c \in C THEN Marked(row[c], "GENERATING") ELSE row[c]]
    BY DEF CommitClaim
  <1> HIDE DEF C
  <1>5. \A c \in C : Marked(row[c], "GENERATING")
                       = [row[c] EXCEPT !.status = "GENERATING"]
    BY <1>2 DEF Marked, Row
  <1>6. row' = [c \in Collections |->
                  IF c \in C THEN [row[c] EXCEPT !.status = "GENERATING"]
                  ELSE row[c]]
    BY <1>4, <1>5
  <1>7. CASE C = {}
    <2>1. row' = row
      BY <1>1, <1>6, <1>7
    <2>2. QED
      BY <1>3, <2>1 DEF Lifecycle!vars
  <1>8. CASE C # {}
    <2>1. Lifecycle!Generate(C)
      BY <1>2, <1>3, <1>6, <1>8 DEF Lifecycle!Generate
    <2>2. QED
      BY <1>1, <2>1 DEF Lifecycle!Next
  <1>9. QED
    BY <1>7, <1>8

\* A callback ends a generation, or does nothing.
LEMMA CallbackLifecycle ==
  ASSUME IndInv, NEW t \in tasks, CompleteSummary(t) \/ FailSummary(t)
  PROVE  [Lifecycle!Next]_Lifecycle!vars
  <1> DEFINE c == t.coll
  <1>1. /\ row \in [Collections -> Row \cup {NoRow}]
        /\ coll \in [Collections -> Collection]
        /\ c \in Collections /\ t.id \in Ids
    BY DEF IndInv, TypeOK, Task
  <1>2. CASE CompleteSummary(t)
    <2> DEFINE new == [id |-> row[c].id, status |-> "COMPLETE",
                       version |-> row[c].version, observed |-> row[c].version]
    <2>1. /\ row[c] \in Row /\ row[c].status = "GENERATING"
          /\ row' = [row EXCEPT ![c] = new]
      BY <1>2, CompletedRow
    <2>2. new = [row[c] EXCEPT !.status = "COMPLETE", !.observed = row[c].version]
      <3> DEFINE k == [row[c] EXCEPT !.status = "COMPLETE"]
                 l == [k EXCEPT !.observed = row[c].version]
      <3>1. k \in Row /\ k.id = row[c].id /\ k.version = row[c].version
            /\ k.status = "COMPLETE"
        BY <2>1 DEF Row, Status
      <3> HIDE DEF k
      <3>2. l = [id |-> k.id, status |-> k.status, version |-> k.version,
                 observed |-> row[c].version]
        BY <3>1 DEF Row
      <3>3. QED
        BY <3>1, <3>2 DEF k
    <2> HIDE DEF c, new
    <2>3. row' = [row EXCEPT ![c].status = "COMPLETE", ![c].observed = row[c].version]
      BY <1>1, <2>1, <2>2
    <2>4. \/ UNCHANGED [d \in Collections |-> coll[d].text]
          \/ [d \in Collections |-> coll[d].text]' =
               [[d \in Collections |-> coll[d].text] EXCEPT ![c] = "summary"]
      <3>1. coll' = coll \/ coll' = [coll EXCEPT ![c].text = "summary"]
        BY <1>2 DEF CompleteSummary, c
      <3>2. CASE coll' = coll
        BY <3>2
      <3>3. CASE coll' = [coll EXCEPT ![c].text = "summary"]
        <4> DEFINE d == [coll[c] EXCEPT !.text = "summary"]
        <4>1. coll' = [coll EXCEPT ![c] = d] /\ d.text = "summary"
          BY <1>1, <3>3 DEF Collection
        <4> HIDE DEF d
        <4>2. QED
          BY <1>1, <4>1, TextOf
      <3>4. QED
        BY <3>1, <3>2, <3>3
    <2>5. Lifecycle!Complete(c)
      BY <2>1, <2>3, <2>4 DEF Lifecycle!Complete
    <2>6. QED
      BY <1>1, <2>5 DEF Lifecycle!Next
  <1>3. CASE FailSummary(t)
    <2>1. UNCHANGED [d \in Collections |-> coll[d].text]
      <3>1. UNCHANGED coll
        BY <1>3 DEF FailSummary
      <3>2. QED
        BY <3>1
    <2>2. CASE ~Expected(t)
      BY <1>3, <2>1, <2>2 DEF FailSummary, Lifecycle!vars
    <2>3. CASE Expected(t)
      <3>1. row[c] \in Row /\ row[c].status = "GENERATING"
        BY <1>1, <2>3, RowHasId DEF Expected
      <3>2. row' = [row EXCEPT ![c] = Marked(row[c], "FAILED")]
        BY <1>3, <2>3 DEF FailSummary
      <3>3. Marked(row[c], "FAILED") = [row[c] EXCEPT !.status = "FAILED"]
        BY <3>1 DEF Marked, Row
      <3> HIDE DEF c
      <3>4. row' = [row EXCEPT ![c].status = "FAILED"]
        BY <3>2, <3>3
      <3>5. Lifecycle!Fail(c)
        BY <2>1, <3>1, <3>4 DEF Lifecycle!Fail
      <3>6. QED
        BY <1>1, <3>5 DEF Lifecycle!Next
    <2>4. QED
      BY <2>2, <2>3
  <1>4. QED
    BY <1>2, <1>3

\* The pipeline implements the atomic life of summaries: sessions that claim
\* several rows, messages sent before their claim is committed, late, lost and
\* repeated generations amount to transitions of SummaryLifecycle.  Requests
\* must not overlap: two of them can write the same version.
THEOREM Refinement ==
  ASSUME SingleClient
  PROVE  Spec => ImplementsLifecycle
  <1>1. IndInv /\ [Next]_vars => [Lifecycle!Next]_Lifecycle!vars
    <2> SUFFICES ASSUME IndInv, [Next]_vars
                 PROVE  [Lifecycle!Next]_Lifecycle!vars
      OBVIOUS
    <2>1. CASE \E q \in Clients : Bump(q) \/ Insert(q) \/ Remove(q)
      BY <2>1, RequestLifecycle
    <2>2. CASE \E r \in Reconcilers : CommitClaim(r)
      BY <2>2, CommitLifecycle
    <2>3. CASE \E t \in tasks : CompleteSummary(t) \/ FailSummary(t)
      BY <2>3, CallbackLifecycle
    <2>4. CASE UNCHANGED row
      <3>1. CASE UNCHANGED coll
        <4>1. UNCHANGED [d \in Collections |-> coll[d].text]
          BY <3>1
        <4>2. QED
          BY <2>4, <4>1 DEF Lifecycle!vars
      <3>2. CASE \E q \in Clients, c \in Collections :
              CreateCollection(q, c) \/ UpdateCollection(q, c) \/ DeleteCollection(q, c)
        BY <2>4, <3>2, CollectionLifecycle
      <3>3. CASE \E t \in tasks : CompleteSummary(t)
        BY <3>3, CallbackLifecycle
      <3>4. QED
        BY <3>1, <3>2, <3>3, CollectionsWritten
    <2>5. QED
      BY <2>1, <2>2, <2>3, <2>4, SummariesWritten
  <1>2. QED
    BY <1>1, InitLifecycle, Invariance, PTL
       DEF Spec, ImplementsLifecycle, Lifecycle!Spec

=============================================================================
