-------------------------- MODULE MCEventControl --------------------------
(***************************************************************************)
(* Model checking of EventControl: interchangeable users and events.       *)
(***************************************************************************)
EXTENDS EventControl, TLC

Symmetry == Permutations(Users) \cup Permutations(Events)

===========================================================================
