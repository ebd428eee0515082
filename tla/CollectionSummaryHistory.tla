---------------------- MODULE CollectionSummaryHistory ----------------------
(***************************************************************************)
(* CollectionSummary with a history variable for what requests can do to   *)
(* each other.  create_collection and update_collection commit the config  *)
(* and act on it in later transactions, from the config they remember      *)
(* (aperag/service/collection_service.py): one request can act on a config *)
(* another has replaced meanwhile, or end before it has acted.  The next   *)
(* update of the collection makes up for either, because its trigger looks *)
(* at the row again.  Every behaviour of CollectionSummary is one of this  *)
(* module.                                                                 *)
(***************************************************************************)
EXTENDS CollectionSummary

VARIABLE
    crossed   \* collections for which, since their config was last written,
              \* a request acted on another config or died

hvars == <<vars, crossed>>

\* Request q creates or drops the summary of a collection whose config says
\* the opposite by now.
ActsOnOldConfig(q) ==
    /\ Insert(q) \/ Remove(q)
    /\ svc[q].enabled # coll[svc[q].coll].enabled

\* The collections of the requests that begin, having written a config, and
\* of those that fail it.
Written == {svc'[q].coll : q \in {p \in Clients : Idle(p) /\ ~Idle(p)'}}
Failed == {svc[q].coll : q \in {p \in Clients : ActsOnOldConfig(p) \/ RequestDies(p)}}

HInit == Init /\ crossed = {}

HNext ==
    /\ Next
    /\ crossed' = (crossed \ Written) \cup Failed

HSpec == HInit /\ [][HNext]_hvars
HFairSpec == HSpec /\ Fairness

-----------------------------------------------------------------------------
(* Properties                                                              *)

\* A request for the summary of c is in progress.
Asked(c) == \E q \in Clients : ~Idle(q) /\ svc[q].coll = c

\* What trigger_collection_summary_generation promises, with requests that
\* overlap or die: once no request for a living collection is in progress, it
\* has a summary row if and only if its config enables one, unless, since that
\* config was written, a request created or dropped the row for a config that
\* another one had replaced, or died between its transactions.
RowMatchesConfig ==
    \A c \in Collections :
      (Live(c) /\ ~Asked(c) /\ c \notin crossed) => (Exists(c) <=> coll[c].enabled)

\* Request q will do for c what its config asks for.
Serves(q, c) ==
    /\ ~Idle(q) /\ svc[q].coll = c /\ svc[q].enabled = coll[c].enabled
    /\ \/ svc[q].pc \in {"trigger", "insert"}
       \/ svc[q].pc = "remove" /\ svc[q].id = row[c].id

\* The inductive invariant behind it.
ConfigInv ==
    /\ \A q \in Clients : ~Idle(q) =>
         /\ svc[q].pc = "insert" => svc[q].enabled
         /\ svc[q].pc = "remove" => ~svc[q].enabled
         /\ coll[svc[q].coll].status # "NONE"
    /\ \A c \in Collections :
         /\ coll[c].status = "NONE" => ~Exists(c)
         /\ Live(c) /\ c \notin crossed =>
              (Exists(c) <=> coll[c].enabled) \/ \E q \in Clients : Serves(q, c)

=============================================================================
