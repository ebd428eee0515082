--------------------------- MODULE MCDocumentIndex ---------------------------
(***************************************************************************)
(* Model checking of DocumentIndex.  Requests are interchangeable, and so  *)
(* are reconcilers; the symmetry is used by runs without liveness.         *)
(***************************************************************************)
EXTENDS DocumentIndex, TLC

Symmetry == Permutations(Clients) \cup Permutations(Reconcilers)

=============================================================================
