--------------------------- MODULE MCDocumentQuota ---------------------------
(* DocumentQuota for TLC: two of three documents have the same name.       *)
EXTENDS DocumentQuota, TLC

CONSTANTS d1, d2, d3, a, b, r1, r2

MCNameOf == d1 :> a @@ d2 :> a @@ d3 :> b
Symmetry == Permutations({d1, d2}) \cup Permutations(Requests)

=============================================================================
