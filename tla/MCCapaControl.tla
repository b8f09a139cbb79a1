--------------------------- MODULE MCCapaControl ---------------------------
(***************************************************************************)
(* Model checking of CapaControl: interchangeable users and events.        *)
(***************************************************************************)
EXTENDS CapaControl, TLC

Symmetry == Permutations(Users) \cup Permutations(Events)

============================================================================
