SPECIFICATION Spec
CONSTANTS
    Users = {u1, u2}
    Tokens = {t1, t2, t3}
    Browsers = {b1}
    Requests = {r1, r2}
    None = None
SYMMETRY Interchangeable
PROPERTY
    LogoutRevokesFamily
