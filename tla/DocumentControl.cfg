\* One document; uploads of it, spooled to disk or not, may overlap.
SPECIFICATION Spec
CONSTANTS
    NoUser = NoUser
    Users = {u1, u2, u3}
    Docs = {d1}
    Requests = {r1, r2}
    MaxVersions = 3
SYMMETRY Symmetry
INVARIANTS
    TypeOK
    AtMostOneEffective
    SegregationOfDuties
    ReviewClockFollowsForce
    RetentionClockRunsOnlyOutOfForce
    RevisionsInOrder
PROPERTIES
    RetirementStartsRetention
    NoReturnToOlderRevision
    IsRegister
CHECK_DEADLOCK FALSE
