--------------------------- MODULE MCQuoteBilling ---------------------------
(* QuoteBilling on a small instance; the bounds are in the .cfg files.     *)
EXTENDS QuoteBilling, TLC

\* The requests are interchangeable.
ClientSymmetry == Permutations(Clients)
=============================================================================
