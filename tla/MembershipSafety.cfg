SPECIFICATION Spec
CONSTANTS
    Users = {u1, u2}
    Workspaces = {w1, w2, w3}
    Invites = {i1, i2}
    Requests = {r1, r2}
    None = None
SYMMETRY Interchangeable
INVARIANTS
    TypeOK
    OneOwner
    InviteUses
PROPERTIES
    NobodyIsThrownOut
    AcceptKeepsAccounts
