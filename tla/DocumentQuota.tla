---------------------------- MODULE DocumentQuota ----------------------------
(***************************************************************************)
(* The quota of documents of one user (quota_service.py) and the requests  *)
(* that consume and release it (document_service.py), with the expiry of   *)
(* uploads (tasks/collection.py) and the recalculation by the user or an   *)
(* administrator.  Each request is a transaction; transactions overlap at  *)
(* READ COMMITTED, and hold the rows they have locked or written until     *)
(* they end.  The user has one collection, which stays.                    *)
(*                                                                         *)
(* A request works on documents: for a creation these are the documents    *)
(* the call would create.                                                  *)
(***************************************************************************)
EXTENDS Integers, FiniteSets

CONSTANTS
    Docs,              \* documents that can ever exist
    NameOf,            \* the file name each of them would have
    Requests,          \* bound: requests under way at a time
    NoOne,
    Limits,            \* limits an administrator sets
    CollectionLimit    \* max_document_count_per_collection

ASSUME ConstantsAssumption ==
    /\ IsFiniteSet(Docs)
    /\ NoOne \notin Requests
    /\ Limits \subseteq Nat
    /\ CollectionLimit \in Nat

VARIABLES
    docs,        \* status of each document, as committed
    trashed,     \* documents whose gmt_deleted is set
    usage,       \* current_usage of the quota row
    limit,       \* quota_limit of the quota row
    quotaLock,   \* the transaction that holds the quota row
    docLock,     \* the transaction that has written a document's row
    req,
    slipped      \* history: quota was released for a document not charged,
                 \* or a count was written that was no longer true

vars == <<docs, trashed, usage, limit, quotaLock, docLock, req, slipped>>

\* ADDED stands for PENDING and every status the index pipeline gives.
Status == {"none", "UPLOADED", "ADDED", "EXPIRED", "DELETED"}
Kinds == {"none", "create", "upload", "confirm", "delete", "expire", "recalculate"}

\* A request: documents it still has to look at, documents it has read and
\* is about to write, documents it has written.
Request == [kind: Kinds, stage: {"quota", "read", "work"}, todo: SUBSET Docs,
            found: SUBSET Docs, written: SUBSET Docs, amount: Nat, seen: Nat]

NewRequest(kind, stage, todo, found, amount) ==
    [kind |-> kind, stage |-> stage, todo |-> todo, found |-> found,
     written |-> {}, amount |-> amount, seen |-> 0]

Idle == NewRequest("none", "work", {}, {}, 0)

Added == {d \in Docs : docs[d] = "ADDED"}
Existing == {d \in Docs : docs[d] \notin {"none", "DELETED"}}
\* What the limit of the collection counts: expired documents as well.
Counted == {d \in Docs : docs[d] \notin {"none", "DELETED", "UPLOADED"}}
Unused == {d \in Docs : docs[d] = "none" /\
             \A r \in Requests : d \notin req[r].todo \cup req[r].written}

\* A bug: the quota row is read without FOR UPDATE.
FreeUnlocked(r) == quotaLock \in Requests \cup {NoOne}

Free(r) == quotaLock \in {NoOne, r}

-----------------------------------------------------------------------------
(* Requests begin                                                          *)

Begins(r, new) ==
    /\ req[r].kind = "none"
    /\ req' = [req EXCEPT ![r] = new]
    /\ UNCHANGED <<docs, trashed, usage, limit, quotaLock, docLock, slipped>>

BeginCreate(r) == \E ds \in SUBSET Unused \ {{}} :
    Begins(r, NewRequest("create", "quota", ds, {}, Cardinality(ds)))

BeginUpload(r) == \E d \in Unused :
    Begins(r, NewRequest("upload", "work", {d}, {}, 0))

BeginConfirm(r) == \E ds \in SUBSET {d \in Docs : docs[d] # "none"} \ {{}} :
    Begins(r, NewRequest("confirm", "quota", ds, {}, Cardinality(ds)))

BeginDelete(r) == \E ds \in SUBSET Existing \ {{}} :
    Begins(r, NewRequest("delete", "work", ds, {}, 0))

\* The uploads that are too old are read at once.
BeginExpire(r) == \E ds \in SUBSET {d \in Docs : docs[d] = "UPLOADED"} \ {{}} :
    Begins(r, NewRequest("expire", "work", {}, ds, 0))

\* The documents are counted; the quota row is read afterwards.
BeginRecalculate(r) ==
    Begins(r, NewRequest("recalculate", "read", {}, {}, Cardinality(Existing)))

-----------------------------------------------------------------------------
(* Requests work                                                           *)

Ends(r) ==
    /\ req' = [req EXCEPT ![r] = Idle]
    /\ quotaLock' = IF quotaLock = r THEN NoOne ELSE quotaLock
    /\ docLock' = [d \in Docs |-> IF docLock[d] = r THEN NoOne ELSE docLock[d]]

\* A bug: the session is neither rolled back nor closed after an exception.
EndsOpen(r) ==
    /\ req' = [req EXCEPT ![r] = Idle]
    /\ UNCHANGED <<quotaLock, docLock>>

RollsBack(r) == Ends(r)

Allowed(r) == usage + req[r].amount <= limit
              /\ Cardinality(Counted) + req[r].amount <= CollectionLimit

\* _check_document_quotas; the usage it flushes is seen once it is committed.
Consume(r) ==
    /\ req[r].stage = "quota" /\ Free(r) /\ Allowed(r)
    /\ quotaLock' = r
    /\ req' = [req EXCEPT ![r].stage = "work"]
    /\ UNCHANGED <<docs, trashed, usage, limit, docLock, slipped>>

Refuse(r) ==
    /\ req[r].stage = "quota" /\ Free(r) /\ ~Allowed(r)
    /\ RollsBack(r)
    /\ UNCHANGED <<docs, trashed, usage, limit, slipped>>

\* A document of that name which is neither DELETED nor has a gmt_deleted.
Duplicate(d) == \E e \in Existing \ trashed : NameOf[e] = NameOf[d]

\* Looks for a duplicate, in a session of its own, unless a creation (of the
\* files of a chat) is to ignore them.
CheckDuplicate(r, d) ==
    /\ req[r].kind \in {"create", "upload"} /\ req[r].stage = "work"
    /\ d \in req[r].todo
    /\ \E skip \in {Duplicate(d), Duplicate(d) /\ req[r].kind = "upload"} :
         req' = [req EXCEPT ![r].todo = req[r].todo \ {d},
                            ![r].written = IF skip THEN req[r].written
                                           ELSE req[r].written \cup {d}]
    /\ UNCHANGED <<docs, trashed, usage, limit, quotaLock, docLock, slipped>>

\* Reads the next document, when what was read before is written: confirm
\* wants it UPLOADED; a deletion, which reads in a session of its own,
\* wants it not DELETED, and has released the quota of the one before.
Wanted(r) == IF req[r].kind = "confirm"
             THEN {d \in Docs : docs[d] = "UPLOADED"} ELSE Existing

Released(r) == req[r].kind = "delete" => req[r].written = {} \/ quotaLock = r

Read(r, d) ==
    /\ req[r].kind \in {"confirm", "delete"} /\ req[r].stage = "work"
    /\ d \in req[r].todo /\ req[r].found = {} /\ Released(r)
    /\ req' = [req EXCEPT ![r].todo = req[r].todo \ {d},
                          ![r].found = {d} \cap Wanted(r)]
    /\ UNCHANGED <<docs, trashed, usage, limit, quotaLock, docLock, slipped>>

\* The UPDATE of a document's row asks for nothing but its id.
Write(r, d) ==
    /\ d \in req[r].found /\ docLock[d] = NoOne
    /\ docLock' = [docLock EXCEPT ![d] = r]
    /\ req' = [req EXCEPT ![r].found = req[r].found \ {d},
                          ![r].written = req[r].written \cup {d}]
    /\ UNCHANGED <<docs, trashed, usage, limit, quotaLock, slipped>>

\* release_quota: the row is locked after that of the document.
Release(r) ==
    /\ ~Released(r) /\ Free(r)
    /\ quotaLock' = r
    /\ UNCHANGED <<docs, trashed, usage, limit, docLock, req, slipped>>

ReadQuota(r) ==
    /\ req[r].stage = "read"
    /\ req' = [req EXCEPT ![r].stage = "work", ![r].seen = usage]
    /\ UNCHANGED <<docs, trashed, usage, limit, quotaLock, docLock, slipped>>

-----------------------------------------------------------------------------
(* Requests end                                                            *)

Commits(r, kinds, status) ==
    /\ req[r].kind \in kinds /\ req[r].stage = "work"
    /\ req[r].todo \cup req[r].found = {} /\ Released(r)
    /\ docs' = [d \in Docs |-> IF d \in req[r].written THEN status ELSE docs[d]]
    /\ Ends(r)
    /\ UNCHANGED limit

\* create_documents and confirm_documents: every document of the call has
\* been paid for.
CommitAdd(r) ==
    /\ Commits(r, {"create", "confirm"}, "ADDED")
    /\ usage' = usage + req[r].amount
    /\ UNCHANGED <<trashed, slipped>>

CommitUpload(r) ==
    Commits(r, {"upload"}, "UPLOADED") /\ UNCHANGED <<usage, trashed, slipped>>

CommitExpire(r) ==
    Commits(r, {"expire"}, "EXPIRED") /\ UNCHANGED <<usage, trashed, slipped>>

\* A bug: nothing keeps the usage from falling below zero.
Less(n) == usage - n

Lowered(n) == IF usage >= n THEN usage - n ELSE 0

\* A bug: two units are returned for a document.
CommitDeleteTwice(r) ==
    /\ Commits(r, {"delete"}, "DELETED")
    /\ usage' = Lowered(2 * Cardinality(req[r].written))
    /\ trashed' = trashed \cup req[r].written
    /\ slipped' = (slipped \/ ~(req[r].written \subseteq Added))

\* One unit is returned for each document, whatever its status was.
CommitDelete(r) ==
    /\ Commits(r, {"delete"}, "DELETED")
    /\ usage' = Lowered(Cardinality(req[r].written))
    /\ trashed' = trashed \cup req[r].written
    /\ slipped' = (slipped \/ ~(req[r].written \subseteq Added))

\* The UPDATE waits for the row; it writes the count unless that is what
\* the usage was when the row was read.
CommitRecalculate(r) ==
    /\ Commits(r, {"recalculate"}, "none") /\ quotaLock = NoOne
    /\ usage' = IF req[r].amount = req[r].seen THEN usage ELSE req[r].amount
    /\ slipped' = (slipped \/ req[r].amount # Cardinality(Existing))
    /\ UNCHANGED trashed

\* A request fails at any point: an exception, the object store, the server.
Fail(r) ==
    /\ req[r].kind # "none"
    /\ RollsBack(r)
    /\ UNCHANGED <<docs, trashed, usage, limit, slipped>>

SetLimit ==
    /\ quotaLock = NoOne
    /\ limit' \in Limits
    /\ UNCHANGED <<docs, trashed, usage, quotaLock, docLock, req, slipped>>

-----------------------------------------------------------------------------
(* PostgreSQL ends a transaction of a circle of transactions that wait.    *)

Holders(r) ==
    IF req[r].stage = "quota" \/ ~Released(r) THEN {quotaLock}
    ELSE {docLock[d] : d \in req[r].found}

\* Every transaction of S waits for another one of S, and no fewer do.
Closed(S) == S # {} /\ \A r \in S :
    Holders(r) # {} /\ Holders(r) \subseteq S \ {r}
Circle(S) == Closed(S) /\ \A T \in SUBSET S : Closed(T) => T = S

Victim(r) == (\E S \in SUBSET Requests : r \in S /\ Circle(S)) /\ Fail(r)

-----------------------------------------------------------------------------
Init ==
    /\ docs = [d \in Docs |-> "none"]
    /\ trashed = {} /\ usage = 0 /\ limit \in Limits
    /\ quotaLock = NoOne /\ docLock = [d \in Docs |-> NoOne]
    /\ req = [r \in Requests |-> Idle]
    /\ slipped = FALSE

Begin(r) ==
    \/ BeginCreate(r) \/ BeginUpload(r) \/ BeginConfirm(r)
    \/ BeginDelete(r) \/ BeginExpire(r) \/ BeginRecalculate(r)

Work(r) ==
    \/ Consume(r) \/ Refuse(r) \/ Release(r) \/ ReadQuota(r)
    \/ \E d \in Docs : CheckDuplicate(r, d) \/ Read(r, d) \/ Write(r, d)
    \/ CommitAdd(r) \/ CommitUpload(r) \/ CommitExpire(r)
    \/ CommitDelete(r) \/ CommitRecalculate(r)

Next ==
    \/ \E r \in Requests : Begin(r) \/ Work(r) \/ Fail(r)
    \/ SetLimit

Spec == Init /\ [][Next]_vars

\* A request goes on when it can; PostgreSQL grants a row in the order in
\* which it was asked for, hence strong fairness, and resolves deadlocks.
Fairness == \A r \in Requests : SF_vars(Work(r) \/ Victim(r))

FairSpec == Spec /\ Fairness

-----------------------------------------------------------------------------
TypeOK ==
    /\ docs \in [Docs -> Status]
    /\ trashed \subseteq Docs
    /\ usage \in Nat /\ limit \in Limits
    /\ quotaLock \in Requests \cup {NoOne}
    /\ docLock \in [Docs -> Requests \cup {NoOne}]
    /\ req \in [Requests -> Request]
    /\ slipped \in BOOLEAN

\* Every document that is part of the collection has been charged, however
\* requests overlap and fail, until quota is released for a document that
\* was not charged or a stale count is written.
AddedIsCharged == ~slipped => Cardinality(Added) <= usage

\* Between its check and its commit nobody takes what a request was granted,
\* and it writes no more documents than it has paid for.
GrantHolds(r) ==
    /\ quotaLock = r
    /\ usage + req[r].amount <= limit
    /\ Cardinality(Added) + req[r].amount <= CollectionLimit

RequestAgrees(r) ==
    /\ req[r].amount <= Cardinality(Docs)
    /\ req[r].kind \in {"none", "recalculate"} \/ req[r].stage = "read" =>
         req[r].todo \cup req[r].found \cup req[r].written = {}
    /\ req[r].kind \in {"create", "confirm"} =>
         Cardinality(req[r].todo \cup req[r].found \cup req[r].written) <= req[r].amount
    /\ req[r].stage = "quota" => req[r].kind \in {"create", "confirm"}
    /\ req[r].kind \in {"create", "confirm"} /\ req[r].stage # "quota" => GrantHolds(r)

\* The inductive invariant of DocumentQuotaProofs: the quota row, locked from
\* the check to the commit, keeps what was granted; the usage stays above
\* the documents that were added (quota_service.py:233-253).
IndInv == TypeOK /\ AddedIsCharged /\ \A r \in Requests : RequestAgrees(r)

\* Consumption and release are atomic: the transactions implement a counter
\* that never rises above the limit, and a collection that is never added to
\* beyond its own.
Ledger == INSTANCE QuotaLedger WITH added <- Added
ImplementsLedger == Ledger!Spec

\* Every request ends: deletions lock the document before the quota and
\* confirmations after it, so they can wait for each other.
RequestsEnd == \A r \in Requests : req[r].kind # "none" ~> req[r].kind = "none"

=============================================================================
