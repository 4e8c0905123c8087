\* Components with tables of their own, each in a lane; a lane may come to an end.
SPECIFICATION LanesSpec
CONSTANTS
    wx = wx  wy = wy  uo = uo  ua = ua  ub = ub  ra = ra  rb = rb
    Ws = {wx}
    First = wx
    User = {uo, ua, ub}
    Founder = uo
    Request = {ra, rb}
    Kinds = {"create", "accept", "remove", "demote", "promote"}
    Seats <- MCSeats
    MaxInvites = 1
    MaxClock = 1
    InviteTtl = 1
    c1 = c1  h1 = h1  h2 = h2  s1 = s1  s2 = s2  NoComment = NoComment
    Finding = {f1}
    MaxPub = 2
    ca = ca  cb = cb
    MaxFaults = 1
    MaxAttempts = 2
    MaxTalk = 1
    MaxIssue = 1
    MaxReviews = 2
    Event = {1, 2, 3}
    Sha = {ca, cb}
    NoSha = NoSha
    ShaOf <- MCShaOf
    StampOf <- MCStampOf
    StateOf <- MCStateOf
    Queue = {1, 2}
    Seat = {p1, p2}
    Guard = 8
    Soft = 2
    Tail = 2
    Margin = 1
    Floor = 1
INVARIANTS LanesTypeOK LateChangeIsTold OneIsNotSkipped LedgerIsNewest AlwaysOwned RetiredIsEmpty EnvelopeIsHonest GuardKillsNoReview TeardownIsLast KeysAtTheirEndpoint PoolsFit
PROPERTIES ClosesWithContext LanesOneHome NothingStaysQueued
CHECK_DEADLOCK FALSE
