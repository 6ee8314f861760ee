SPECIFICATION SpecFromBalanced
CONSTANTS
    Transactions = {t, u}
    Templates = {m}
    Recurrences = {p}
    Categories = {c, d}
    Requests = {x}
    Amounts = {2, 4}
    Null = Null
    Gone = Gone
SYMMETRY Interchangeable
INVARIANT
    SplitsSumToAmount
CHECK_DEADLOCK FALSE
