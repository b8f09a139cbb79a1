--------------------------- MODULE MCAlertControl ---------------------------
(***************************************************************************)
(* Model checking of AlertControl: interchangeable groups and requests.    *)
(***************************************************************************)
EXTENDS AlertControl, TLC

Symmetry == Permutations(Groups) \cup Permutations(Requests) \cup Permutations(Alerts)

=============================================================================
