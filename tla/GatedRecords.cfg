\* A change request or an audit, with requests of other processes under way.
SPECIFICATION Spec
CONSTANTS
    ChangeStatus = {"Draft", "Approved", "Closed"}
    AuditStatus = {"Planned", "Closed"}
    Records = {d1}
    Lines = {l1, l2}
    Tasks = {t1, t2}
    Assessments = {Pending}
    Pending = Pending
    Users <- MCUsers
    Grants <- MCGrants
    Requests = {q1}
    MaxOrder = 2
SYMMETRY Symmetry
CHECK_DEADLOCK FALSE
INVARIANTS
    TypeOK
    ClosedWithoutOpenTasks
    TrailTellsStatus
PROPERTIES
    LinesInOrder
    DeletedStaysAsItWas
    SurfacesAgree
