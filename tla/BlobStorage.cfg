\* An attachment, an image slot and its replacement and deletion, in two processes.
SPECIFICATION Spec
CONSTANTS
    Processes = {p1, p2}
    Requests = {q1, q2}
    Parents = {e1}
    Slots = {s1}
    Keys = {k1, k2, k3}
    Connections = 1
    Null = Null
CHECK_DEADLOCK FALSE
INVARIANTS
    TypeOK
    StoreMatchesTables
PROPERTY EveryRequestAnswered
