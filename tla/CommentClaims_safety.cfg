\* Two comments, three deliveries, two places in the queue; or three commits and
\* the rounds over them; or the seats of a workspace, where an invitation lives
\* for two of three ticks: those of one workspace lapse one after the other, a
\* downgrade may come in between, and its members may come to an end.
SPECIFICATION LanesSpec
CONSTANTS
    c1 = c1  c2 = c2  h1 = h1  h2 = h2  h3 = h3  s1 = s1  s2 = s2  s3 = s3
    Comment = {c1, c2}
    Hook = {h1, h2, h3}
    Slot = {s1, s2}
    CommentOf <- MCCommentOf
    NoComment = NoComment
    MaxAttempts = 1
    MaxDeliveries = 2
    SendFault = {"lost"}
    Sha = {1, 2, 3}
    NoSha = 0
    History <- MCHistory
    Empty = {2}
    MaxFaults = 1
    Ws = {"w"}
    First = "w"
    User = {"owner", "a", "b"}
    Founder = "owner"
    Request = {1, 2}
    Kinds = {"create", "accept", "remove", "plan"}
    Seats <- MCSeats
    MaxInvites = 1
    MaxClock = 2
    InviteTtl = 2
SYMMETRY MCSymmetry
INVARIANTS TypeOK ExpiredNeverRan Covered PlanIsNotOversold
PROPERTIES StartsAtMostOnce SeatsHold
CHECK_DEADLOCK FALSE
