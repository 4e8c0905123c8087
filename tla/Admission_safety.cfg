\* Two messages for one pull request, one of them a comment trigger, with
\* both levels, every pair of caps and every fault; or two for two pull
\* requests that compete for the capacity.
SPECIFICATION MCSpec
CONSTANTS
    m1 = m1  m2 = m2  m3 = m3
    p1 = p1  p2 = p2  w1 = w1  a = a  quick = quick  deep = deep
    Msg = {m1, m2, m3}
    PR = {p1, p2}
    Workspace = {w1}
    Sha = {a}
    NoSha = NoSha
    NoAttempt = NoAttempt
    PrOf <- SharedPrOf
    WorkspaceOf <- OneWorkspace
    ShaOf <- CommentShaOf
    Level = {quick, deep}
    Ttl <- MCTtl
    Delay <- MCDelay
    MaxDeliveries = 4
    Wall = 1
    CapValue = {1, 2}
INVARIANTS TypeOK OneRoundPerPr RowOutlivesRound FirstHolder
PROPERTIES AdmissionUnderCap EveryMessageEnds
