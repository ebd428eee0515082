------------------------ MODULE DocumentIndexHistory ------------------------
(***************************************************************************)
(* DocumentIndex with a history variable that tells apart the one thing    *)
(* overlapping requests can do wrong to a row.  update_version             *)
(* (aperag/db/models.py) adds one to the version the request has read, and *)
(* the ORM writes the sum as a literal: a request that read the row before *)
(* another one rebuilt it, and commits after, writes a version the row has *)
(* already had.  Every behaviour of DocumentIndex is one of this module.   *)
(***************************************************************************)
EXTENDS DocumentIndex

VARIABLE
    lost      \* a request has overwritten another one's version

hvars == <<vars, lost>>

\* The version request c will write is not above the one the row has now.
WritesOldVersion(c) ==
    \E t \in Written(svc[c]) :
      /\ svc[c].op # "delete" /\ svc[c].seen[t] # NoRow
      /\ svc[c].seen[t].version < row[t].version

HInit == Init /\ lost = FALSE

HNext ==
    /\ Next
    /\ lost' = (lost \/ \E c \in Clients : Commit(c) /\ WritesOldVersion(c))

HSpec == HInit /\ [][HNext]_hvars

-----------------------------------------------------------------------------
(* Properties                                                              *)

\* Until a request overwrites another one's version, a PENDING row satisfies a
\* claiming condition of the reconciler (reconciler.py:91-105), however
\* requests, claims, jobs and callbacks overlap.  The lost version is thus the
\* only way to a row that stays PENDING with nothing left to observe.
PendingIsClaimable == ~lost => WaitingIsClaimable

\* Until then no row goes back in time while it exists: neither the version
\* requested nor the version observed decreases.
VersionsOnlyGrow == [][~lost' => VersionsGrow]_hvars

\* The inductive invariant behind both, for any number of requests.
ObservedIsPast == \A t \in Types : row[t].observed <= row[t].version

HistoryInv == LockInv /\ (~lost => ObservedIsPast /\ WaitingIsClaimable)

=============================================================================
