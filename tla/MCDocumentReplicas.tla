------------------------ MODULE MCDocumentReplicas ------------------------
(***************************************************************************)
(* Model checking of DocumentReplicas: interchangeable users and requests. *)
(***************************************************************************)
EXTENDS DocumentReplicas, TLC

Symmetry == Permutations(Users) \cup Permutations(Requests)

===========================================================================
