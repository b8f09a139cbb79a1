------------------------- MODULE MCDocumentControl -------------------------
(***************************************************************************)
(* Model checking of DocumentControl.  Users are interchangeable (a role   *)
(* that holds every document permission is a legal one), and so are upload *)
(* requests and documents.                                                 *)
(***************************************************************************)
EXTENDS DocumentControl, TLC

Symmetry == Permutations(Users) \cup Permutations(Docs) \cup Permutations(Requests)

============================================================================
