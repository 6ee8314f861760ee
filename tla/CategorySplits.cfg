SPECIFICATION Spec
CONSTANTS
    Transactions = {t, u}
    Templates = {m}
    Recurrences = {p}
    Categories = {c, d}
    Requests = {x, y}
    Amounts = {1, 2, 4}
    Null = Null
    Gone = Gone
SYMMETRY Interchangeable
INVARIANTS
    TypeOK
    CalmEntriesBalanced
    ReceiptIsThere
CHECK_DEADLOCK FALSE
