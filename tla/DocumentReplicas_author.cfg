\* Two requests overlap at any time, on one document with one version.
SPECIFICATION ReplicasSpec
CONSTANTS
    NoUser = NoUser
    Users = {u1, u2, u3}
    Docs = {d1}
    Requests = {r1, r2}
    MaxVersions = 1
SYMMETRY Symmetry
INVARIANTS
    ReplicasTypeOK
    AuthorNeverSigns
CHECK_DEADLOCK FALSE
