\* CAPAs moved through their stages and edited, whatever the stage.
SPECIFICATION Spec
CONSTANTS
    NoUser = NoUser
    Users = {u1, u2}
    Capas = {c1}
    Events = {e1, e2}
SYMMETRY Symmetry
INVARIANTS
    TypeOK
    OutcomeMatchesStatus
    StagesHaveTheirRecord
PROPERTY VerdictStands
