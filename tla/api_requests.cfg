SPECIFICATION Spec
CONSTANTS
    Replicas = {a1}
    Requests = {q1, q2}
    Subjects = {u1}
    Alerts = {e1}
    NoAlert = NoAlert
    NoRequest = NoRequest
    Limit = 2
    Window = 3
    Draws = {d1, d2}
    MaxLag = 1
    MaxTime = 4
    MaxRestarts = 1
SYMMETRY Symmetry
INVARIANTS TypeOK WindowLimit OnlyOverlappingAcksAreFirst
PROPERTY RefusedOnlyWhenFull
