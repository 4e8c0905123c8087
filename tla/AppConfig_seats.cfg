\* A chain is removed while the seats are saved.
SPECIFICATION Spec
CONSTANTS
    Request = {r1, r2}
    Provider = {p1}
    Endpoint = {e1}
    Key = {k1}
    Chain = {n1}
    Role = {o1}
    Kinds = {"keys", "chains"}
    None = None
    MaxKeys = 1
    MaxDeclared = 1
INVARIANTS SeatsResolve
