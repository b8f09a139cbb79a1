\* Two overlapping answers, of one process or of several, beside answers in one step, and
\* groups that come and go.
SPECIFICATION Spec
CONSTANTS
    Alerts = {a1}
    Groups = {g1, g2, g3}
    NoGroup = NoGroup
    Requests = {r1, r2}
    StandaloneEnabled = TRUE
SYMMETRY Symmetry
INVARIANTS
    TypeOK
    AcknowledgedByAll
    NoAnswerOverlooked
    ClosedStaysClosed
