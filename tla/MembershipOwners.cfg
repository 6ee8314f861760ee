SPECIFICATION Spec
CONSTANTS
    Users = {u1, u2, u3}
    Workspaces = {w1, w2, w3}
    Invites = {i1}
    Requests = {r1, r2}
    None = None
SYMMETRY Interchangeable
INVARIANT
    SingleOwner
