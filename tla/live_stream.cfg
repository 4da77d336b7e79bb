SPECIFICATION Spec
CONSTANTS
    Replicas = {a1}
    Partitions = {p1}
    Services = {s1, s2}
    NotJSON = NotJSON
    NoFilter = NoFilter
    NoReplica = NoReplica
    NoRequest = NoRequest
    Clients = {c1}
    Filters = {NoFilter, s1}
    QueueSize = 2
    MaxMessages = 3
    MaxFailures = 1
SYMMETRY Symmetry
INVARIANTS TypeOK InOrder Accounted CommittedIsFanned
