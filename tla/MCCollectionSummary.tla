------------------------ MODULE MCCollectionSummary ------------------------
(***************************************************************************)
(* Model checking of CollectionSummary.  Ids are strings and messages are  *)
(* numbers; collections, clients and reconcilers are interchangeable.      *)
(***************************************************************************)
EXTENDS CollectionSummary, TLC

Symmetry == Permutations(Clients) \cup Permutations(Reconcilers)
            \cup Permutations(Collections)

=============================================================================
