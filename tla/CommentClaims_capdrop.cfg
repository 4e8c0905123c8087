\* A comment trigger that a full deployment does not admit.
SPECIFICATION Spec
CONSTANTS
    c1 = c1  c2 = c2  h1 = h1  h2 = h2  h3 = h3  s1 = s1  s2 = s2  s3 = s3
    Comment = {c1}
    Hook = {h1, h2}
    Slot = {s1, s2}
    CommentOf <- MCCommentOf
    NoComment = NoComment
    MaxAttempts = 2
    MaxDeliveries = 4
    SendFault = {"lost"}
PROPERTIES CapDropIsTraced
