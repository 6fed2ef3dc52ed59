\* Two pods and one IP, so that a new pod can take the IP of a terminating
\* one; the second pod starts out selected by both services, and labels can
\* move either pod between services.  Pod names can come back (StatefulSet
\* pods).
SPECIFICATION Spec
CONSTANTS
    Pods = {p1, p2}
    IPs = {i1}
    Services = {s1, s2}
    NoPod = NoPod
    NoService = NoService
    Member <- MCMember
    NameReuse = TRUE
    MaxChanges = 3
INVARIANT TypeOK
INVARIANT DeletedGone
PROPERTY Converges
