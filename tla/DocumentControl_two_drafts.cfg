\* The guard of create_version against two revisions in flight, when the
\* files are large enough to be spooled to disk.
SPECIFICATION Spec
CONSTANTS
    NoUser = NoUser
    Users = {u1, u2}
    Docs = {d1}
    Requests = {r1, r2}
    MaxVersions = 2
INVARIANT OneRevisionInFlight
CHECK_DEADLOCK FALSE
