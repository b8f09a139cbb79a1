\* Does the PUT of the API respect the investigation-first flow?
SPECIFICATION Spec
CONSTANTS
    NoUser = NoUser
    Users = {u1, u2, u3}
    NoGroup = NoGroup
    Groups = {g1}
    Events = {e1}
SYMMETRY Symmetry
INVARIANTS
    InvestigationFirstFlow
CHECK_DEADLOCK FALSE
