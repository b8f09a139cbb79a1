\* One record through certifications, edits of its course and the end of a leap month.
SPECIFICATION Spec
CONSTANTS
    Employees = {e1}
    Users = {u1}
    Courses = {c1}
    Records = {r1}
    Days <- MCDays
    ApiPeriods = {1}
    FormPeriods = {0, 1}
    Acknowledgments = {a1}
    Blank = Blank
    Null = Null
    Requests = {q1}
CHECK_DEADLOCK FALSE
INVARIANTS
    TypeOK
    TrainedHasEvidence
    ExpiryFollowsPolicy
PROPERTY NoDrift
