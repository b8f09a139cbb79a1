-------------------------- MODULE MCAccessControl --------------------------
(***************************************************************************)
(* Model checking of AccessControl: an administrator's role, one that can  *)
(* do nothing here, one that is created, and a built-in one.               *)
(***************************************************************************)
EXTENDS AccessControl, TLC

Managing == {"user:manage", "settings:manage"}

Symmetry == Permutations(Organizations) \cup Permutations(Users)

MCSubmitted == {{}, Managing}

============================================================================
