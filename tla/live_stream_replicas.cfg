SPECIFICATION Spec
CONSTANTS
    Replicas = {a1, a2}
    Partitions = {p1}
    Services = {s1}
    NotJSON = NotJSON
    NoFilter = NoFilter
    NoReplica = NoReplica
    NoRequest = NoRequest
    Clients = {c1, c2}
    Filters = {NoFilter}
    QueueSize = 1
    MaxMessages = 2
    MaxFailures = 1
PROPERTY EveryClientIsServed
