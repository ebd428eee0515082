----------------------- MODULE MCDocumentIndexHistory -----------------------
(***************************************************************************)
(* Model checking of DocumentIndexHistory: requests that overlap.  They    *)
(* are interchangeable, and so are reconcilers.                            *)
(***************************************************************************)
EXTENDS DocumentIndexHistory, TLC

Symmetry == Permutations(Clients) \cup Permutations(Reconcilers)

=============================================================================
