\* Is at most one version in force when two processes serve requests?
SPECIFICATION ReplicasSpec
CONSTANTS
    NoUser = NoUser
    Users = {u1, u2, u3}
    Docs = {d1}
    Requests = {r1, r2}
    MaxVersions = 2
SYMMETRY Symmetry
INVARIANT AtMostOneEffective
CHECK_DEADLOCK FALSE
