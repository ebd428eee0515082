--------------------- MODULE MCCollectionSummaryHistory ---------------------
(***************************************************************************)
(* Model checking of CollectionSummaryHistory: requests that overlap and   *)
(* die.  Collections, clients and reconcilers are interchangeable.         *)
(***************************************************************************)
EXTENDS CollectionSummaryHistory, TLC

Symmetry == Permutations(Clients) \cup Permutations(Reconcilers)
            \cup Permutations(Collections)

=============================================================================
