\* Two users, a custom role and the setup, with a request of another process under way.
SPECIFICATION Spec
CONSTANTS
    Organizations = {o1, o2}
    Users = {u1, u2}
    CustomRoles = {r1}
    Names = {"Admin", "User", "Viewer", "Lead"}
    Submitted <- MCSubmitted
    Requests = {q1}
    Null = Null
    PublicRegistration = TRUE
SYMMETRY Symmetry
CHECK_DEADLOCK FALSE
INVARIANTS
    TypeOK
    RolesResolve
    SetupOnce
PROPERTY GrantsFollowDecisions
