\* Events edited, moved, closed and reopened from the browser and the API.
SPECIFICATION Spec
CONSTANTS
    NoUser = NoUser
    Users = {u1, u2, u3}
    NoGroup = NoGroup
    Groups = {g1}
    Events = {e1, e2}
SYMMETRY Symmetry
INVARIANTS
    TypeOK
    InvestigatedBeforeClosed
    ClosedIffApproved
    ReporterNeverCloses
CHECK_DEADLOCK FALSE
