--------------------------- MODULE MCGatedRecords ---------------------------
(***************************************************************************)
(* Model checking of GatedRecords: users of two built-in roles, with the   *)
(* permissions that Permissions grants them, and of the statuses those     *)
(* that the rules tell apart.                                              *)
(***************************************************************************)
EXTENDS GatedRecords, Permissions, TLC

MCUsers == {"QualityManager", "Investigator"}

MCGrants == [role \in MCUsers |-> ROLE_PERMISSIONS[role]]

Symmetry == Permutations(Records) \cup Permutations(Lines) \cup Permutations(Tasks)

=============================================================================
