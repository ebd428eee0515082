------------------------- MODULE DocumentQuotaProofs -------------------------
(***************************************************************************)
(* Theorems about DocumentQuota, for any documents, names, requests that   *)
(* overlap, limits, and failures.                                          *)
(***************************************************************************)
EXTENDS DocumentQuota, FiniteSetTheorems, TLAPS

USE ConstantsAssumption

LEMMA DocsAreFinite ==
  ASSUME NEW S \in SUBSET Docs
  PROVE  /\ IsFiniteSet(S) /\ Cardinality(S) \in Nat
         /\ Cardinality(S) <= Cardinality(Docs) /\ Cardinality(Docs) \in Nat
  BY FS_Subset, FS_CardinalityType

LEMMA AtMostBoth ==
  ASSUME NEW S \in SUBSET Docs, NEW T \in SUBSET Docs
  PROVE  Cardinality(S \cup T) <= Cardinality(S) + Cardinality(T)
<1>1. /\ IsFiniteSet(S) /\ IsFiniteSet(T)
      /\ Cardinality(S) \in Nat /\ Cardinality(T) \in Nat /\ Cardinality(S \cap T) \in Nat
  BY DocsAreFinite, S \cap T \in SUBSET Docs
<1>2. Cardinality(S \cup T) = Cardinality(S) + Cardinality(T) - Cardinality(S \cap T)
  BY <1>1, FS_Union
<1> QED BY <1>1, <1>2, SMT

LEMMA Fewer ==
  ASSUME NEW T \in SUBSET Docs, NEW S \in SUBSET T
  PROVE  Cardinality(S) <= Cardinality(T) /\ Cardinality(S) \in Nat /\ Cardinality(T) \in Nat
  BY DocsAreFinite, FS_Subset

LEMMA WithoutSome ==
  ASSUME NEW T \in SUBSET Docs, NEW S \in SUBSET T
  PROVE  Cardinality(T \ S) = Cardinality(T) - Cardinality(S)
<1>1. IsFiniteSet(T) /\ T \cap S = S
  BY DocsAreFinite
<1> QED BY <1>1, FS_Difference

-----------------------------------------------------------------------------
(* Types                                                                   *)

LEMMA IdleIsRequest == Idle \in Request
  BY SMT DEF Idle, NewRequest, Request, Kinds

LEMMA InitTypes == Init => TypeOK
<1> SUFFICES ASSUME Init PROVE TypeOK
  OBVIOUS
<1>1. docs \in [Docs -> Status]
  BY DEF Init, Status
<1>2. req \in [Requests -> Request]
  BY IdleIsRequest, Zenon DEF Init
<1> QED BY <1>1, <1>2 DEF Init, TypeOK

LEMMA NewIsRequest ==
  ASSUME NEW k \in Kinds, NEW s \in {"quota", "read", "work"},
         NEW T \in SUBSET Docs, NEW F \in SUBSET Docs, NEW n \in Nat
  PROVE  NewRequest(k, s, T, F, n) \in Request
  BY SMT DEF NewRequest, Request

-----------------------------------------------------------------------------
(* The invariant                                                           *)

LEMMA AddedSubset == Added \in SUBSET Docs /\ Counted \in SUBSET Docs /\ Existing \in SUBSET Docs
  BY DEF Added, Counted, Existing

LEMMA InitInv == Init => IndInv
<1> SUFFICES ASSUME Init PROVE IndInv
  OBVIOUS
<1>1. Added = {}
  BY DEF Init, Added
<1>2. AddedIsCharged
  BY <1>1, FS_EmptySet, SMT DEF Init, AddedIsCharged
<1>3. \A r \in Requests : RequestAgrees(r)
  <2> TAKE r \in Requests
  <2>1. req[r] = Idle /\ Cardinality(Docs) \in Nat
    BY DocsAreFinite DEF Init
  <2> QED BY <2>1, SMT DEF RequestAgrees, Idle, NewRequest
<1> QED BY <1>2, <1>3, InitTypes DEF IndInv

\* A request that goes on without committing: the others keep what they have.
LEMMA GoingOn ==
  ASSUME IndInv, NEW r \in Requests, NEW new \in Request,
         req' = [req EXCEPT ![r] = new],
         UNCHANGED <<docs, trashed, usage, limit, slipped>>,
         quotaLock' = quotaLock \/ (Free(r) /\ quotaLock' = r),
         docLock' \in [Docs -> Requests \cup {NoOne}],
         RequestAgrees(r)'
  PROVE  IndInv'
<1>1. req' \in [Requests -> Request] /\ quotaLock' \in Requests \cup {NoOne}
  BY DEF IndInv, TypeOK
<1>2. TypeOK'
  BY <1>1 DEF IndInv, TypeOK
<1>3. Added' = Added
  BY DEF Added
<1>4. AddedIsCharged'
  BY <1>3 DEF IndInv, AddedIsCharged
<1>5. ASSUME NEW p \in Requests, p # r PROVE RequestAgrees(p)'
  <2>1. req'[p] = req[p] /\ RequestAgrees(p)
    BY <1>5 DEF IndInv, TypeOK
  <2>2. GrantHolds(p) => GrantHolds(p)'
    BY <1>3, <1>5, <2>1 DEF GrantHolds, Free
  <2> QED BY <2>1, <2>2 DEF RequestAgrees
<1> QED BY <1>2, <1>4, <1>5 DEF IndInv

\* A request that ends: it held the quota row, or it takes nothing from the
\* request that does.
LEMMA Ending ==
  ASSUME IndInv, NEW r \in Requests, Ends(r),
         docs' \in [Docs -> Status], trashed' \subseteq Docs, usage' \in Nat,
         limit' = limit, slipped' \in BOOLEAN, AddedIsCharged',
         \/ quotaLock \in {NoOne, r}
         \/ usage' <= usage /\ Cardinality(Added') <= Cardinality(Added)
  PROVE  IndInv'
<1>1. req' = [req EXCEPT ![r] = Idle] /\ req' \in [Requests -> Request]
  BY IdleIsRequest DEF Ends, IndInv, TypeOK
<1>2. /\ quotaLock' \in Requests \cup {NoOne}
      /\ docLock' \in [Docs -> Requests \cup {NoOne}]
  BY DEF Ends, IndInv, TypeOK
<1>3. TypeOK'
  BY <1>1, <1>2 DEF IndInv, TypeOK
<1>4. ASSUME NEW p \in Requests, p # r PROVE RequestAgrees(p)'
  <2>1. req'[p] = req[p] /\ RequestAgrees(p) /\ req[p].amount \in Nat
    BY <1>1, <1>4 DEF IndInv, TypeOK, Request
  <2>2. GrantHolds(p) => GrantHolds(p)'
    <3> SUFFICES ASSUME GrantHolds(p) PROVE GrantHolds(p)'
      OBVIOUS
    <3>1. quotaLock = p /\ quotaLock' = p
      BY <1>4 DEF GrantHolds, Ends
    <3>2. usage' <= usage /\ Cardinality(Added') <= Cardinality(Added)
      BY <1>4, <3>1
    <3>3. Cardinality(Added) \in Nat /\ Cardinality(Added') \in Nat /\ limit \in Nat /\ usage \in Nat
      <4>1. Added \in SUBSET Docs /\ Added' \in SUBSET Docs
        BY DEF Added
      <4> QED BY <4>1, DocsAreFinite DEF IndInv, TypeOK
    <3> QED BY <2>1, <3>1, <3>2, <3>3, SMT DEF GrantHolds
  <2> QED BY <2>1, <2>2 DEF RequestAgrees
<1>5. RequestAgrees(r)'
  <2>1. req'[r] = Idle /\ Cardinality(Docs) \in Nat
    BY <1>1, DocsAreFinite DEF IndInv, TypeOK
  <2> QED BY <2>1, SMT DEF RequestAgrees, Idle, NewRequest
<1> QED BY <1>3, <1>4, <1>5 DEF IndInv

LEMMA BeginsAgreeing ==
  ASSUME IndInv, NEW r \in Requests, NEW k \in Kinds, NEW s \in {"quota", "read", "work"},
         NEW T \in SUBSET Docs, NEW F \in SUBSET Docs, NEW n \in Nat,
         Begins(r, NewRequest(k, s, T, F, n)), n <= Cardinality(Docs),
         \/ k \in {"create", "confirm"} /\ s = "quota" /\ F = {} /\ n = Cardinality(T)
         \/ k \in {"upload", "delete", "expire"} /\ s = "work"
         \/ k = "recalculate" /\ s = "read" /\ T \cup F = {}
  PROVE  IndInv'
<1> DEFINE new == NewRequest(k, s, T, F, n)
<1>1. new \in Request
  BY NewIsRequest
<1>2. /\ req' = [req EXCEPT ![r] = new] /\ quotaLock' = quotaLock /\ docLock' = docLock
      /\ UNCHANGED <<docs, trashed, usage, limit, slipped>>
  BY DEF Begins
<1>3. /\ req'[r] = new /\ new.kind = k /\ new.stage = s /\ new.amount = n
      /\ new.todo = T /\ new.found = F /\ new.written = {}
  BY <1>2 DEF IndInv, TypeOK, NewRequest
<1>4. RequestAgrees(r)'
  <2>1. Cardinality(T) \in Nat
    BY DocsAreFinite
  <2>2. F = {} => Cardinality(T \cup F \cup {}) = Cardinality(T)
    OBVIOUS
  <2> HIDE DEF new
  <2> QED BY <1>3, <2>1, <2>2, SMT DEF RequestAgrees
<1> QED BY <1>1, <1>2, <1>4, GoingOn DEF IndInv, TypeOK

LEMMA BeginAgrees ==
  ASSUME IndInv, NEW r \in Requests, Begin(r) PROVE IndInv'
<1>1. /\ Unused \in SUBSET Docs /\ Existing \in SUBSET Docs
      /\ {d \in Docs : docs[d] # "none"} \in SUBSET Docs
      /\ {d \in Docs : docs[d] = "UPLOADED"} \in SUBSET Docs
  BY DEF Unused, Existing
<1>2. Cardinality(Docs) \in Nat
  BY DocsAreFinite
<1>3. CASE BeginCreate(r)
  <2>1. PICK ds \in SUBSET Unused \ {{}} :
          Begins(r, NewRequest("create", "quota", ds, {}, Cardinality(ds)))
    BY <1>3 DEF BeginCreate
  <2>2. ds \in SUBSET Docs /\ Cardinality(ds) \in Nat /\ Cardinality(ds) <= Cardinality(Docs)
    BY <1>1, DocsAreFinite
  <2> QED BY <2>1, <2>2, BeginsAgreeing DEF Kinds
<1>4. CASE BeginUpload(r)
  <2>1. PICK d \in Unused : Begins(r, NewRequest("upload", "work", {d}, {}, 0))
    BY <1>4 DEF BeginUpload
  <2> QED BY <1>1, <1>2, <2>1, BeginsAgreeing DEF Kinds
<1>5. CASE BeginConfirm(r)
  <2>1. PICK ds \in SUBSET {d \in Docs : docs[d] # "none"} \ {{}} :
          Begins(r, NewRequest("confirm", "quota", ds, {}, Cardinality(ds)))
    BY <1>5 DEF BeginConfirm
  <2>2. ds \in SUBSET Docs /\ Cardinality(ds) \in Nat /\ Cardinality(ds) <= Cardinality(Docs)
    BY <1>1, DocsAreFinite
  <2> QED BY <2>1, <2>2, BeginsAgreeing DEF Kinds
<1>6. CASE BeginDelete(r)
  <2>1. PICK ds \in SUBSET Existing \ {{}} :
          Begins(r, NewRequest("delete", "work", ds, {}, 0))
    BY <1>6 DEF BeginDelete
  <2> QED BY <1>1, <1>2, <2>1, BeginsAgreeing DEF Kinds
<1>7. CASE BeginExpire(r)
  <2>1. PICK ds \in SUBSET {d \in Docs : docs[d] = "UPLOADED"} \ {{}} :
          Begins(r, NewRequest("expire", "work", {}, ds, 0))
    BY <1>7 DEF BeginExpire
  <2> QED BY <1>1, <1>2, <2>1, BeginsAgreeing DEF Kinds
<1>8. CASE BeginRecalculate(r)
  <2>1. /\ Cardinality(Existing) \in Nat /\ Cardinality(Existing) <= Cardinality(Docs)
        /\ {} \cup {} = {} /\ {} \in SUBSET Docs
    BY <1>1, DocsAreFinite
  <2>2. Begins(r, NewRequest("recalculate", "read", {}, {}, Cardinality(Existing)))
    BY <1>8 DEF BeginRecalculate
  <2> QED BY <2>1, <2>2, BeginsAgreeing DEF Kinds
<1> QED BY <1>3, <1>4, <1>5, <1>6, <1>7, <1>8 DEF Begin

\* A request is a record; what EXCEPT makes of it.
LEMMA RequestFields ==
  ASSUME TypeOK, NEW r \in Requests
  PROVE  /\ req[r] \in Request /\ req[r].kind \in Kinds
         /\ req[r].todo \in SUBSET Docs /\ req[r].found \in SUBSET Docs
         /\ req[r].written \in SUBSET Docs /\ req[r].amount \in Nat
  BY DEF TypeOK, Request

LEMMA ConsumeAgrees ==
  ASSUME IndInv, NEW r \in Requests, Consume(r) PROVE IndInv'
<1> DEFINE new == [req[r] EXCEPT !.stage = "work"]
<1>1. TypeOK /\ req[r] \in Request /\ RequestAgrees(r) /\ req[r].kind \in {"create", "confirm"}
  BY RequestFields DEF IndInv, RequestAgrees, Consume
<1>2. new \in Request
  BY <1>1 DEF Request
<1>3. req' = [req EXCEPT ![r] = new] /\ quotaLock' = r /\ Free(r) /\ docLock' = docLock
      /\ UNCHANGED <<docs, trashed, usage, limit, slipped>>
  BY DEF Consume
<1>4. /\ req'[r] = new /\ new.kind = req[r].kind /\ new.stage = "work" /\ new.amount = req[r].amount
      /\ new.todo = req[r].todo /\ new.found = req[r].found /\ new.written = req[r].written
  BY <1>1, <1>3 DEF TypeOK, Request
<1>5. Cardinality(Added) <= Cardinality(Counted) /\ Cardinality(Added) \in Nat /\ Cardinality(Counted) \in Nat
  <2>1. Added \in SUBSET Counted /\ Counted \in SUBSET Docs
    BY DEF Added, Counted
  <2> QED BY <2>1, Fewer
<1>6. Added' = Added
  BY <1>3 DEF Added
<1>7. GrantHolds(r)'
  <2>1. Allowed(r) /\ req[r].amount \in Nat
    BY <1>1, RequestFields DEF Consume
  <2> HIDE DEF new
  <2>2. req'[r].amount = req[r].amount
    BY <1>4
  <2> QED BY <1>3, <1>5, <1>6, <2>1, <2>2, SMT DEF GrantHolds, Allowed
<1>8. RequestAgrees(r)'
  <2> HIDE DEF new
  <2> QED BY <1>1, <1>4, <1>7 DEF RequestAgrees
<1> HIDE DEF new
<1> QED BY <1>1, <1>2, <1>3, <1>8, GoingOn DEF TypeOK

\* The steps that move documents of a request from "to do" to "written".
LEMMA MovingAgrees ==
  ASSUME IndInv, NEW r \in Requests, NEW todo \in SUBSET Docs, NEW found \in SUBSET Docs,
         NEW written \in SUBSET Docs,
         todo \cup found \cup written \subseteq
            req[r].todo \cup req[r].found \cup req[r].written,
         req' = [req EXCEPT ![r] = [req[r] EXCEPT !.todo = todo, !.found = found,
                                                  !.written = written]],
         UNCHANGED <<docs, trashed, usage, limit, slipped, quotaLock>>,
         docLock' \in [Docs -> Requests \cup {NoOne}]
  PROVE  IndInv'
<1> DEFINE new == [req[r] EXCEPT !.todo = todo, !.found = found, !.written = written]
<1>1. req[r] \in Request /\ RequestAgrees(r) /\ req[r].amount \in Nat
  BY RequestFields DEF IndInv
<1>2. new \in Request
  BY <1>1 DEF Request
<1>3. /\ req'[r] = new /\ new.kind = req[r].kind /\ new.stage = req[r].stage
      /\ new.amount = req[r].amount
      /\ new.todo = todo /\ new.found = found /\ new.written = written
  BY <1>1 DEF IndInv, TypeOK, Request
<1> DEFINE All == req[r].todo \cup req[r].found \cup req[r].written
           All2 == todo \cup found \cup written
<1>4. /\ Cardinality(All2) <= Cardinality(All)
      /\ Cardinality(All2) \in Nat /\ Cardinality(All) \in Nat
  <2>1. All \in SUBSET Docs /\ All2 \in SUBSET All
    BY RequestFields DEF IndInv
  <2> QED BY <2>1, Fewer
<1>5. All = {} => All2 = {}
  OBVIOUS
<1>6. GrantHolds(r) => GrantHolds(r)'
  <2>1. Added' = Added
    BY DEF Added
  <2> HIDE DEF new
  <2> QED BY <1>3, <2>1 DEF GrantHolds
<1>7. /\ All2 = req'[r].todo \cup req'[r].found \cup req'[r].written
      /\ req'[r].kind = req[r].kind /\ req'[r].stage = req[r].stage
      /\ req'[r].amount = req[r].amount
  BY <1>3
<1>8. RequestAgrees(r)'
  <2> HIDE DEF new
  <2>1. /\ req[r].amount <= Cardinality(Docs)
        /\ req[r].kind \in {"none", "recalculate"} \/ req[r].stage = "read" => All = {}
        /\ req[r].kind \in {"create", "confirm"} => Cardinality(All) <= req[r].amount
    BY <1>1 DEF RequestAgrees
  <2>2. req[r].kind \in {"create", "confirm"} => Cardinality(All2) <= req[r].amount
    <3> HIDE DEF All, All2
    <3> QED BY <1>1, <1>4, <2>1, SMT
  <2> HIDE DEF All, All2
  <2>3. /\ req[r].stage = "quota" => req[r].kind \in {"create", "confirm"}
        /\ req[r].kind \in {"create", "confirm"} /\ req[r].stage # "quota" => GrantHolds(r)
    BY <1>1 DEF RequestAgrees
  <2> QED BY <1>5, <1>6, <1>7, <2>1, <2>2, <2>3 DEF RequestAgrees
<1>9. req' = [req EXCEPT ![r] = new]
  OBVIOUS
<1> HIDE DEF new
<1> QED BY <1>2, <1>8, <1>9, GoingOn

LEMMA CheckDuplicateAgrees ==
  ASSUME IndInv, NEW r \in Requests, NEW d \in Docs, CheckDuplicate(r, d) PROVE IndInv'
<1>1. /\ req[r] \in Request /\ req[r].todo \in SUBSET Docs
      /\ req[r].found \in SUBSET Docs /\ req[r].written \in SUBSET Docs
  BY RequestFields DEF IndInv
<1>2. PICK skip \in {Duplicate(d), Duplicate(d) /\ req[r].kind = "upload"} :
        req' = [req EXCEPT ![r].todo = req[r].todo \ {d},
                           ![r].written = IF skip THEN req[r].written
                                          ELSE req[r].written \cup {d}]
  BY DEF CheckDuplicate
<1>3. PICK written \in {req[r].written, req[r].written \cup {d}} :
        req' = [req EXCEPT ![r].todo = req[r].todo \ {d}, ![r].written = written]
  BY <1>2
<1>4. req' = [req EXCEPT ![r] = [req[r] EXCEPT !.todo = req[r].todo \ {d},
                                   !.found = req[r].found, !.written = written]]
  <2>1. [[req[r] EXCEPT !.todo = req[r].todo \ {d}] EXCEPT !.written = written]
        = [req[r] EXCEPT !.todo = req[r].todo \ {d}, !.found = req[r].found, !.written = written]
    BY <1>1 DEF Request
  <2> QED BY <1>3, <2>1 DEF IndInv, TypeOK
<1>5. /\ UNCHANGED <<docs, trashed, usage, limit, slipped, quotaLock>> /\ d \in req[r].todo
      /\ docLock' \in [Docs -> Requests \cup {NoOne}]
  BY DEF CheckDuplicate, IndInv, TypeOK
<1>6. /\ req[r].todo \ {d} \in SUBSET Docs /\ written \in SUBSET Docs
      /\ (req[r].todo \ {d}) \cup req[r].found \cup written \subseteq
           req[r].todo \cup req[r].found \cup req[r].written
  BY <1>1, <1>5
<1> QED BY <1>1, <1>4, <1>5, <1>6, MovingAgrees

LEMMA ReadAgrees ==
  ASSUME IndInv, NEW r \in Requests, NEW d \in Docs, Read(r, d) PROVE IndInv'
<1>1. /\ req[r] \in Request /\ req[r].todo \in SUBSET Docs
      /\ req[r].found \in SUBSET Docs /\ req[r].written \in SUBSET Docs
  BY RequestFields DEF IndInv
<1>2. PICK found \in SUBSET {d} :
        req' = [req EXCEPT ![r].todo = req[r].todo \ {d}, ![r].found = found]
  BY DEF Read
<1>4. req' = [req EXCEPT ![r] = [req[r] EXCEPT !.todo = req[r].todo \ {d},
                                   !.found = found, !.written = req[r].written]]
  <2>1. [[req[r] EXCEPT !.todo = req[r].todo \ {d}] EXCEPT !.found = found]
        = [req[r] EXCEPT !.todo = req[r].todo \ {d}, !.found = found, !.written = req[r].written]
    BY <1>1 DEF Request
  <2> QED BY <1>2, <2>1 DEF IndInv, TypeOK
<1>5. /\ UNCHANGED <<docs, trashed, usage, limit, slipped, quotaLock>> /\ d \in req[r].todo
      /\ docLock' \in [Docs -> Requests \cup {NoOne}]
  BY DEF Read, IndInv, TypeOK
<1>6. /\ req[r].todo \ {d} \in SUBSET Docs /\ found \in SUBSET Docs
      /\ (req[r].todo \ {d}) \cup found \cup req[r].written \subseteq
           req[r].todo \cup req[r].found \cup req[r].written
  BY <1>1, <1>5
<1> QED BY <1>1, <1>4, <1>5, <1>6, MovingAgrees

LEMMA WriteAgrees ==
  ASSUME IndInv, NEW r \in Requests, NEW d \in Docs, Write(r, d) PROVE IndInv'
<1>1. /\ req[r] \in Request /\ req[r].todo \in SUBSET Docs
      /\ req[r].found \in SUBSET Docs /\ req[r].written \in SUBSET Docs
  BY RequestFields DEF IndInv
<1>4. req' = [req EXCEPT ![r] = [req[r] EXCEPT !.todo = req[r].todo,
                 !.found = req[r].found \ {d}, !.written = req[r].written \cup {d}]]
  <2>1. [[req[r] EXCEPT !.found = req[r].found \ {d}] EXCEPT !.written = req[r].written \cup {d}]
        = [req[r] EXCEPT !.todo = req[r].todo,
                 !.found = req[r].found \ {d}, !.written = req[r].written \cup {d}]
    BY <1>1 DEF Request
  <2> QED BY <2>1 DEF Write, IndInv, TypeOK
<1>5. /\ UNCHANGED <<docs, trashed, usage, limit, slipped, quotaLock>> /\ d \in req[r].found
      /\ docLock' \in [Docs -> Requests \cup {NoOne}]
  BY DEF Write, IndInv, TypeOK
<1>6. /\ req[r].found \ {d} \in SUBSET Docs /\ req[r].written \cup {d} \in SUBSET Docs
      /\ req[r].todo \cup (req[r].found \ {d}) \cup (req[r].written \cup {d}) \subseteq
           req[r].todo \cup req[r].found \cup req[r].written
  BY <1>1, <1>5
<1> QED BY <1>1, <1>4, <1>5, <1>6, MovingAgrees

LEMMA ReleaseAgrees ==
  ASSUME IndInv, NEW r \in Requests, Release(r) PROVE IndInv'
<1>1. /\ UNCHANGED <<docs, trashed, usage, limit, slipped, docLock, req>>
      /\ quotaLock' = r /\ Free(r) /\ req[r].kind = "delete" /\ RequestAgrees(r)
      /\ req[r] \in Request /\ docLock' \in [Docs -> Requests \cup {NoOne}]
  BY RequestFields DEF Release, Released, IndInv, TypeOK
<1>2. req' = [req EXCEPT ![r] = req[r]]
  BY <1>1 DEF IndInv, TypeOK
<1>3. RequestAgrees(r)'
  BY <1>1 DEF RequestAgrees
<1> QED BY <1>1, <1>2, <1>3, GoingOn

LEMMA ReadQuotaAgrees ==
  ASSUME IndInv, NEW r \in Requests, ReadQuota(r) PROVE IndInv'
<1> DEFINE new == [req[r] EXCEPT !.stage = "work", !.seen = usage]
<1>1. /\ req[r] \in Request /\ RequestAgrees(r) /\ req[r].stage = "read" /\ usage \in Nat
      /\ req[r].kind \in Kinds
  BY RequestFields DEF IndInv, TypeOK, ReadQuota
<1>2. new \in Request
  BY <1>1 DEF Request
<1>3. /\ req' = [req EXCEPT ![r] = new] /\ docLock' \in [Docs -> Requests \cup {NoOne}]
      /\ UNCHANGED <<docs, trashed, usage, limit, slipped, quotaLock>>
  BY DEF ReadQuota, IndInv, TypeOK
<1>4. /\ req'[r] = new /\ new.kind = req[r].kind /\ new.stage = "work"
      /\ new.amount = req[r].amount
      /\ new.todo = req[r].todo /\ new.found = req[r].found /\ new.written = req[r].written
  BY <1>1, <1>3 DEF IndInv, TypeOK, Request
<1>5. RequestAgrees(r)'
  <2> HIDE DEF new
  <2>1. Added' = Added
    BY <1>3 DEF Added
  <2>2. GrantHolds(r) => GrantHolds(r)'
    BY <1>3, <1>4, <2>1 DEF GrantHolds
  <2> QED BY <1>1, <1>4, <2>2 DEF RequestAgrees
<1> HIDE DEF new
<1> QED BY <1>2, <1>3, <1>5, GoingOn

LEMMA RollsBackAgrees ==
  ASSUME IndInv, NEW r \in Requests, Refuse(r) \/ Fail(r) PROVE IndInv'
<1>1. Ends(r) /\ UNCHANGED <<docs, trashed, usage, limit, slipped>>
  BY DEF Refuse, Fail, RollsBack
<1>2. Added' = Added /\ Cardinality(Added) \in Nat
  BY <1>1, AddedSubset, DocsAreFinite DEF Added
<1>3. /\ docs' \in [Docs -> Status] /\ trashed' \subseteq Docs /\ usage' \in Nat
      /\ limit' = limit /\ slipped' \in BOOLEAN /\ usage' = usage /\ AddedIsCharged'
  BY <1>1, <1>2 DEF IndInv, TypeOK, AddedIsCharged
<1>4. usage' <= usage /\ Cardinality(Added') <= Cardinality(Added)
  BY <1>2, <1>3, SMT
<1> QED BY <1>1, <1>3, <1>4, Ending

-----------------------------------------------------------------------------
(* Commits                                                                 *)

LEMMA Committing ==
  ASSUME IndInv, NEW r \in Requests, NEW kinds, NEW status \in Status, Commits(r, kinds, status)
  PROVE  /\ Ends(r) /\ limit' = limit /\ docs' \in [Docs -> Status]
         /\ req[r].written \in SUBSET Docs /\ Added \in SUBSET Docs /\ Added' \in SUBSET Docs
         /\ Added' = IF status = "ADDED" THEN Added \cup req[r].written
                                         ELSE Added \ req[r].written
         /\ usage \in Nat /\ limit \in Nat /\ slipped \in BOOLEAN /\ trashed \subseteq Docs
         /\ req[r].amount \in Nat /\ Cardinality(Added) \in Nat
         /\ Cardinality(Added') \in Nat /\ Cardinality(req[r].written) \in Nat
<1>1. /\ Ends(r) /\ limit' = limit
      /\ docs' = [d \in Docs |-> IF d \in req[r].written THEN status ELSE docs[d]]
  BY DEF Commits
<1>2. /\ docs \in [Docs -> Status] /\ usage \in Nat /\ limit \in Nat /\ slipped \in BOOLEAN
      /\ trashed \subseteq Docs /\ req[r].written \in SUBSET Docs /\ req[r].amount \in Nat
  BY RequestFields DEF IndInv, TypeOK
<1>3. docs' \in [Docs -> Status]
  BY <1>1, <1>2
<1>4. /\ Added \in SUBSET Docs /\ Added' \in SUBSET Docs
      /\ Added' = IF status = "ADDED" THEN Added \cup req[r].written ELSE Added \ req[r].written
  BY <1>1, <1>2 DEF Added
<1> QED BY <1>1, <1>2, <1>3, <1>4, DocsAreFinite

\* What a creation or a confirmation that commits was granted and pays for.
LEMMA PaidFor ==
  ASSUME IndInv, NEW r \in Requests, Commits(r, {"create", "confirm"}, "ADDED")
  PROVE  /\ GrantHolds(r) /\ Cardinality(req[r].written) <= req[r].amount
         /\ Cardinality(Added \cup req[r].written)
              <= Cardinality(Added) + Cardinality(req[r].written)
         /\ req[r].amount \in 0..Cardinality(Docs)
<1>1. /\ RequestAgrees(r) /\ req[r].kind \in {"create", "confirm"} /\ req[r].stage = "work"
      /\ req[r].amount \in Nat /\ Cardinality(Docs) \in Nat
      /\ req[r].todo \in SUBSET Docs /\ req[r].found \in SUBSET Docs
      /\ req[r].written \in SUBSET Docs
  BY RequestFields, DocsAreFinite DEF IndInv, Commits
<1> DEFINE All == req[r].todo \cup req[r].found \cup req[r].written
<1>2. GrantHolds(r) /\ Cardinality(All) <= req[r].amount /\ req[r].amount <= Cardinality(Docs)
  BY <1>1 DEF RequestAgrees
<1>3. /\ Cardinality(req[r].written) <= Cardinality(All) /\ Cardinality(All) \in Nat
      /\ Cardinality(req[r].written) \in Nat
  <2>1. All \in SUBSET Docs /\ req[r].written \in SUBSET All
    BY <1>1
  <2> QED BY <2>1, Fewer
<1>4. Cardinality(Added \cup req[r].written) <= Cardinality(Added) + Cardinality(req[r].written)
  BY <1>1, AddedSubset, AtMostBoth
<1>5. Cardinality(req[r].written) <= req[r].amount /\ req[r].amount \in 0..Cardinality(Docs)
  <2> HIDE DEF All
  <2> QED BY <1>1, <1>2, <1>3, SMT
<1> QED BY <1>2, <1>4, <1>5

LEMMA CommitAddAgrees ==
  ASSUME IndInv, NEW r \in Requests, CommitAdd(r) PROVE IndInv'
<1>1. /\ Commits(r, {"create", "confirm"}, "ADDED") /\ usage' = usage + req[r].amount
      /\ trashed' = trashed /\ slipped' = slipped
  BY DEF CommitAdd
<1>2. "ADDED" \in Status
  BY DEF Status
<1>3. /\ Ends(r) /\ limit' = limit /\ docs' \in [Docs -> Status]
      /\ Added' = Added \cup req[r].written
      /\ usage \in Nat /\ slipped \in BOOLEAN /\ trashed \subseteq Docs /\ req[r].amount \in Nat
      /\ Cardinality(Added) \in Nat /\ Cardinality(req[r].written) \in Nat
      /\ Cardinality(Added') \in Nat
  BY <1>1, <1>2, Committing
<1>4. /\ quotaLock = r /\ Cardinality(req[r].written) <= req[r].amount
      /\ Cardinality(Added') <= Cardinality(Added) + Cardinality(req[r].written)
  BY <1>1, <1>3, PaidFor DEF GrantHolds
<1>5. AddedIsCharged'
  <2>1. ~slipped => Cardinality(Added) <= usage
    BY DEF IndInv, AddedIsCharged
  <2> QED BY <1>1, <1>3, <1>4, <2>1, SMT DEF AddedIsCharged
<1>6. usage' \in Nat
  BY <1>1, <1>3
<1> QED BY <1>1, <1>3, <1>4, <1>5, <1>6, Ending

\* An upload or an expiry takes no quota, and no document it writes was paid
\* for by it.
LEMMA CommitUnpaidAgrees ==
  ASSUME IndInv, NEW r \in Requests, CommitUpload(r) \/ CommitExpire(r) PROVE IndInv'
<1>1. PICK kinds \in {{"upload"}, {"expire"}}, status \in {"UPLOADED", "EXPIRED"} :
        Commits(r, kinds, status)
  BY DEF CommitUpload, CommitExpire
<1>2. status \in Status /\ status # "ADDED" /\ UNCHANGED <<usage, trashed, slipped>>
  BY DEF Status, CommitUpload, CommitExpire
<1>3. /\ Ends(r) /\ limit' = limit /\ docs' \in [Docs -> Status]
      /\ Added' = Added \ req[r].written /\ Added \in SUBSET Docs
      /\ usage \in Nat /\ slipped \in BOOLEAN /\ trashed \subseteq Docs
  BY <1>1, <1>2, Committing
<1>4. /\ Cardinality(Added') <= Cardinality(Added) /\ Cardinality(Added') \in Nat
      /\ Cardinality(Added) \in Nat
  BY <1>3, Fewer
<1>5. AddedIsCharged'
  <2>1. ~slipped => Cardinality(Added) <= usage
    BY DEF IndInv, AddedIsCharged
  <2> QED BY <1>2, <1>3, <1>4, <2>1, SMT DEF AddedIsCharged
<1>6. usage' <= usage /\ usage' \in Nat
  BY <1>2, <1>3, SMT
<1> QED BY <1>2, <1>3, <1>4, <1>5, <1>6, Ending

LEMMA CommitDeleteAgrees ==
  ASSUME IndInv, NEW r \in Requests, CommitDelete(r) PROVE IndInv'
<1> DEFINE n == Cardinality(req[r].written)
<1>1. /\ Commits(r, {"delete"}, "DELETED") /\ usage' = Lowered(n)
      /\ trashed' = trashed \cup req[r].written
      /\ slipped' = (slipped \/ ~(req[r].written \subseteq Added))
  BY DEF CommitDelete
<1>2. "DELETED" \in Status /\ Released(r) /\ req[r].kind = "delete"
  BY <1>1 DEF Status, Commits
<1>3. /\ Ends(r) /\ limit' = limit /\ docs' \in [Docs -> Status]
      /\ Added' = Added \ req[r].written /\ Added \in SUBSET Docs
      /\ req[r].written \in SUBSET Docs /\ trashed \subseteq Docs /\ slipped \in BOOLEAN
      /\ usage \in Nat /\ n \in Nat /\ Cardinality(Added) \in Nat /\ Cardinality(Added') \in Nat
  BY <1>1, <1>2, Committing
<1>4. usage' \in Nat /\ trashed' \subseteq Docs /\ slipped' \in BOOLEAN
  <2>1. usage' \in Nat
    <3> HIDE DEF n
    <3> QED BY <1>1, <1>3, SMT DEF Lowered
  <2> QED BY <1>1, <1>3, <2>1
<1>5. AddedIsCharged'
  <2>1. ~slipped => Cardinality(Added) <= usage
    BY DEF IndInv, AddedIsCharged
  <2>2. req[r].written \subseteq Added => Cardinality(Added') = Cardinality(Added) - n
    BY <1>3, WithoutSome
  <2>3. ~slipped' => ~slipped /\ req[r].written \subseteq Added
    BY <1>1
  <2> HIDE DEF n
  <2> QED BY <1>1, <1>3, <2>1, <2>2, <2>3, SMT DEF AddedIsCharged, Lowered
<1>6. \/ quotaLock \in {NoOne, r}
      \/ usage' <= usage /\ Cardinality(Added') <= Cardinality(Added)
  <2>1. CASE quotaLock = r
    BY <2>1
  <2>2. CASE req[r].written = {}
    <3>1. n = 0 /\ Added' = Added
      BY <1>3, <2>2, FS_EmptySet
    <3> HIDE DEF n
    <3> QED BY <1>1, <1>3, <3>1, SMT DEF Lowered
  <2> QED BY <1>2, <2>1, <2>2 DEF Released
<1> HIDE DEF n
<1> QED BY <1>3, <1>4, <1>5, <1>6, Ending

LEMMA CommitRecalculateAgrees ==
  ASSUME IndInv, NEW r \in Requests, CommitRecalculate(r) PROVE IndInv'
<1>1. /\ Commits(r, {"recalculate"}, "none") /\ quotaLock = NoOne /\ trashed' = trashed
      /\ usage' = IF req[r].amount = req[r].seen THEN usage ELSE req[r].amount
      /\ slipped' = (slipped \/ req[r].amount # Cardinality(Existing))
  BY DEF CommitRecalculate
<1>2. "none" \in Status /\ req[r].written = {}
  BY <1>1 DEF Status, Commits, IndInv, RequestAgrees
<1>3. /\ Ends(r) /\ limit' = limit /\ docs' \in [Docs -> Status]
      /\ Added' = Added /\ trashed \subseteq Docs /\ slipped \in BOOLEAN /\ usage \in Nat
      /\ req[r].amount \in Nat /\ Cardinality(Added) \in Nat
  BY <1>1, <1>2, Committing
<1>4. usage' \in Nat /\ slipped' \in BOOLEAN /\ trashed' \subseteq Docs
  BY <1>1, <1>3
<1>5. AddedIsCharged'
  <2>1. ~slipped => Cardinality(Added) <= usage
    BY DEF IndInv, AddedIsCharged
  <2>2. Cardinality(Added) <= Cardinality(Existing) /\ Cardinality(Existing) \in Nat
    <3>1. Added \in SUBSET Existing
      BY DEF Added, Existing
    <3> QED BY <3>1, AddedSubset, Fewer
  <2>3. ~slipped' => ~slipped /\ req[r].amount = Cardinality(Existing)
    BY <1>1
  <2> QED BY <1>1, <1>3, <2>1, <2>2, <2>3, SMT DEF AddedIsCharged
<1> QED BY <1>1, <1>3, <1>4, <1>5, Ending

LEMMA SetLimitAgrees ==
  ASSUME IndInv, SetLimit PROVE IndInv'
<1>1. /\ quotaLock = NoOne /\ limit' \in Limits
      /\ UNCHANGED <<docs, trashed, usage, quotaLock, docLock, req, slipped>>
  BY DEF SetLimit
<1>2. Added' = Added
  BY <1>1 DEF Added
<1>3. \A p \in Requests : RequestAgrees(p)'
  <2> TAKE p \in Requests
  <2>1. RequestAgrees(p) /\ ~GrantHolds(p)
    BY <1>1 DEF IndInv, GrantHolds
  <2> QED BY <1>1, <2>1 DEF RequestAgrees
<1> QED BY <1>1, <1>2, <1>3 DEF IndInv, TypeOK, AddedIsCharged

-----------------------------------------------------------------------------
LEMMA NextAgrees == IndInv /\ [Next]_vars => IndInv'
<1> SUFFICES ASSUME IndInv, [Next]_vars PROVE IndInv'
  OBVIOUS
<1>1. CASE UNCHANGED vars
  <2>1. UNCHANGED <<docs, trashed, usage, limit, quotaLock, docLock, req, slipped>>
    BY <1>1 DEF vars
  <2>2. Added' = Added
    BY <2>1 DEF Added
  <2> QED BY <2>1, <2>2 DEF IndInv, TypeOK, AddedIsCharged, RequestAgrees, GrantHolds
<1>2. CASE SetLimit
  BY <1>2, SetLimitAgrees
<1>3. ASSUME NEW r \in Requests, Begin(r) \/ Work(r) \/ Fail(r) PROVE IndInv'
  <2>1. CASE Begin(r)
    BY <2>1, BeginAgrees
  <2>2. CASE Consume(r)
    BY <2>2, ConsumeAgrees
  <2>3. CASE Refuse(r) \/ Fail(r)
    BY <2>3, RollsBackAgrees
  <2>4. CASE Release(r)
    BY <2>4, ReleaseAgrees
  <2>5. CASE ReadQuota(r)
    BY <2>5, ReadQuotaAgrees
  <2>6. ASSUME NEW d \in Docs, CheckDuplicate(r, d) \/ Read(r, d) \/ Write(r, d) PROVE IndInv'
    BY <2>6, CheckDuplicateAgrees, ReadAgrees, WriteAgrees
  <2>7. CASE CommitAdd(r)
    BY <2>7, CommitAddAgrees
  <2>8. CASE CommitUpload(r) \/ CommitExpire(r)
    BY <2>8, CommitUnpaidAgrees
  <2>9. CASE CommitDelete(r)
    BY <2>9, CommitDeleteAgrees
  <2>10. CASE CommitRecalculate(r)
    BY <2>10, CommitRecalculateAgrees
  <2> QED BY <1>3, <2>1, <2>2, <2>3, <2>4, <2>5, <2>6, <2>7, <2>8, <2>9, <2>10 DEF Work
<1> QED BY <1>1, <1>2, <1>3 DEF Next

\* The inductive invariant: what a request was granted under the lock of the
\* quota row holds until it commits (quota_service.py:233-253).
THEOREM Invariance == Spec => []IndInv
  BY InitInv, NextAgrees, PTL DEF Spec

\* The variables keep their types; the usage, which release_quota lowers
\* without looking at what it is, never falls below zero
\* (quota_service.py:287).
THEOREM TypeCorrect == Spec => []TypeOK
<1>1. IndInv => TypeOK
  BY DEF IndInv
<1> QED BY <1>1, Invariance, PTL

\* Every document of the collection has been charged, until quota is
\* released for one that was not, or a stale count is written
\* (document_service.py:420-511, 635-674, 1178-1266).
THEOREM Charged == Spec => []AddedIsCharged
<1>1. IndInv => AddedIsCharged
  BY DEF IndInv
<1> QED BY <1>1, Invariance, PTL

-----------------------------------------------------------------------------
(* The transactions implement the ledger                                   *)

LEMMA InitLedger == Init => Ledger!Init
<1> SUFFICES ASSUME Init PROVE Ledger!Init
  OBVIOUS
<1>1. Added = {}
  BY DEF Init, Added
<1> QED BY <1>1 DEF Init, Ledger!Init

LEMMA SameCardinality == \A S : Ledger!Cardinality(S) = Cardinality(S)
  BY Zenon DEF Ledger!Cardinality, Cardinality

LEMMA LedgerStep ==
  ASSUME NEW n \in 0..Cardinality(Docs), NEW ds \in SUBSET Docs,
         Ledger!Consume(n, ds) \/ Ledger!Release(ds) \/ Ledger!Lapse(ds) \/ Ledger!Recalculate(n)
  PROVE  Ledger!Next
  BY SameCardinality, Zenon DEF Ledger!Next

LEMMA CommitLedger ==
  ASSUME IndInv, NEW r \in Requests,
         \/ CommitAdd(r) \/ CommitUpload(r) \/ CommitExpire(r)
         \/ CommitDelete(r) \/ CommitRecalculate(r)
  PROVE  Ledger!Next \/ UNCHANGED <<usage, limit, Added>>
<1>1. /\ req[r].written \in SUBSET Docs /\ req[r].amount \in Nat
      /\ 0 \in 0..Cardinality(Docs) /\ {} \in SUBSET Docs
      /\ req[r].amount \in 0..Cardinality(Docs)
  <2>1. RequestAgrees(r) /\ req[r].written \in SUBSET Docs /\ req[r].amount \in Nat
    BY RequestFields DEF IndInv
  <2>2. req[r].amount <= Cardinality(Docs) /\ Cardinality(Docs) \in Nat
    BY <2>1, DocsAreFinite DEF RequestAgrees
  <2> QED BY <2>1, <2>2
<1>2. {"ADDED", "UPLOADED", "EXPIRED", "DELETED", "none"} \subseteq Status
  BY DEF Status
<1>3. CASE CommitAdd(r)
  <2>1. Commits(r, {"create", "confirm"}, "ADDED") /\ usage' = usage + req[r].amount
    BY <1>3 DEF CommitAdd
  <2>2. /\ GrantHolds(r) /\ Cardinality(req[r].written) <= req[r].amount
        /\ Cardinality(Added \cup req[r].written)
             <= Cardinality(Added) + Cardinality(req[r].written)
    BY <2>1, PaidFor
  <2>3. /\ limit' = limit /\ Added' = Added \cup req[r].written
        /\ Cardinality(Added) \in Nat /\ Cardinality(req[r].written) \in Nat
        /\ Cardinality(Added') \in Nat
    BY <1>2, <2>1, Committing
  <2>4. Cardinality(Added \cup req[r].written) <= CollectionLimit
    BY <1>1, <2>2, <2>3, SMT DEF GrantHolds
  <2>5. Ledger!Consume(req[r].amount, req[r].written)
    BY <2>1, <2>2, <2>3, <2>4, SameCardinality DEF GrantHolds, Ledger!Consume
  <2> QED BY <1>1, <2>5, LedgerStep
<1>4. CASE CommitUpload(r) \/ CommitExpire(r)
  <2>1. PICK kinds \in {{"upload"}, {"expire"}}, status \in {"UPLOADED", "EXPIRED"} :
          Commits(r, kinds, status)
    BY <1>4 DEF CommitUpload, CommitExpire
  <2>2. usage' = usage /\ status # "ADDED" /\ status \in Status
    BY <1>2, <1>4 DEF CommitUpload, CommitExpire
  <2>3. limit' = limit /\ Added' = Added \ req[r].written
    BY <2>1, <2>2, Committing
  <2>4. Ledger!Lapse(req[r].written)
    BY <2>2, <2>3 DEF Ledger!Lapse
  <2> QED BY <1>1, <2>4, LedgerStep
<1>5. CASE CommitDelete(r)
  <2>1. /\ Commits(r, {"delete"}, "DELETED")
        /\ usage' = Lowered(Cardinality(req[r].written))
    BY <1>5 DEF CommitDelete
  <2>2. limit' = limit /\ Added' = Added \ req[r].written
    BY <1>2, <2>1, Committing
  <2>3. Ledger!Release(req[r].written)
    BY <2>1, <2>2, SameCardinality DEF Lowered, Ledger!Release
  <2> QED BY <1>1, <2>3, LedgerStep
<1>6. CASE CommitRecalculate(r)
  <2>1. /\ Commits(r, {"recalculate"}, "none")
        /\ usage' = usage \/ usage' = req[r].amount
    BY <1>6 DEF CommitRecalculate
  <2>2. req[r].written = {}
    BY <2>1 DEF Commits, IndInv, RequestAgrees
  <2>3. limit' = limit /\ Added' = Added
    BY <1>2, <2>1, <2>2, Committing
  <2>4. usage' = usage \/ Ledger!Recalculate(req[r].amount)
    BY <2>1, <2>3 DEF Ledger!Recalculate
  <2> QED BY <1>1, <2>3, <2>4, LedgerStep
<1> QED BY <1>3, <1>4, <1>5, <1>6

LEMMA NextLedger == IndInv /\ [Next]_vars => [Ledger!Next]_(Ledger!vars)
<1> SUFFICES ASSUME IndInv, [Next]_vars PROVE Ledger!Next \/ UNCHANGED <<usage, limit, Added>>
  BY DEF Ledger!vars
<1>1. ASSUME UNCHANGED <<usage, limit, docs>> PROVE UNCHANGED <<usage, limit, Added>>
  BY <1>1 DEF Added
<1>2. CASE UNCHANGED vars
  BY <1>1, <1>2 DEF vars
<1>3. CASE SetLimit
  <2>1. limit' \in Limits /\ usage' = usage /\ Added' = Added
    BY <1>3 DEF SetLimit, Added
  <2> QED BY <2>1 DEF Ledger!Next, Ledger!SetLimit
<1>4. ASSUME NEW r \in Requests, Begin(r) \/ Work(r) \/ Fail(r)
      PROVE  Ledger!Next \/ UNCHANGED <<usage, limit, Added>>
  <2>1. CASE Begin(r)
    <3>1. UNCHANGED <<usage, limit, docs>>
      BY <2>1 DEF Begin, BeginCreate, BeginUpload, BeginConfirm, BeginDelete, BeginExpire,
                  BeginRecalculate, Begins
    <3> QED BY <1>1, <3>1
  <2>2. CASE \/ Consume(r) \/ Refuse(r) \/ Fail(r) \/ Release(r) \/ ReadQuota(r)
             \/ \E d \in Docs : CheckDuplicate(r, d) \/ Read(r, d) \/ Write(r, d)
    <3>1. UNCHANGED <<usage, limit, docs>>
      BY <2>2 DEF Consume, Refuse, Fail, Release, ReadQuota, CheckDuplicate, Read, Write
    <3> QED BY <1>1, <3>1
  <2>3. CASE \/ CommitAdd(r) \/ CommitUpload(r) \/ CommitExpire(r)
             \/ CommitDelete(r) \/ CommitRecalculate(r)
    BY <2>3, CommitLedger
  <2> QED BY <1>4, <2>1, <2>2, <2>3 DEF Work
<1> QED BY <1>2, <1>3, <1>4 DEF Next

\* The overlapping transactions implement a counter that is checked and
\* raised in one step with the documents it pays for, never above the limit
\* and never beyond what the collection holds (quota_service.py:233-253,
\* document_service.py:197-231).
THEOREM Implements == Spec => ImplementsLedger
  BY InitLedger, Invariance, NextLedger, PTL DEF Spec, ImplementsLedger, Ledger!Spec

=============================================================================
