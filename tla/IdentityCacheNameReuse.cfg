\* Spec-level convergence: a pod no service selects any more (relabelled,
\* or back under its name after its service went) keeps the old service
\* name in podToServices, so the cache never agrees with the cluster.
SPECIFICATION Spec
CONSTANTS
    Pods = {p1, p2}
    IPs = {i1}
    Services = {s1, s2}
    NoPod = NoPod
    NoService = NoService
    Member <- MCMember
    NameReuse = TRUE
    MaxChanges = 3
PROPERTY ConvergesToSpec
