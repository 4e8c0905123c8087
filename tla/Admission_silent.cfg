\* One commit, one message, level deep: a drop that leaves no trace.
SPECIFICATION Spec
CONSTANTS
    m1 = m1  m2 = m2  m3 = m3
    p1 = p1  p2 = p2  w1 = w1  a = a  quick = quick  deep = deep
    Msg = {m1}
    PR = {p1}
    Workspace = {w1}
    Sha = {a}
    NoSha = NoSha
    NoAttempt = NoAttempt
    PrOf <- SharedPrOf
    WorkspaceOf <- OneWorkspace
    ShaOf <- SameShaOf
    Level = {deep}
    Ttl <- MCTtl
    Delay <- MCDelay
    MaxDeliveries = 4
    Wall = 2
    CapValue = {1}
PROPERTIES SilentDropIsCovered
