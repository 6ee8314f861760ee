SPECIFICATION MCSpec
CONSTANTS
    a1 = a1
    a2 = a2
    c1 = c1
    c2 = c2
    c3 = c3
    u1 = u1
    t1 = t1
    t2 = t2
    b1 = b1
    Null = Null
    Fresh = Fresh
    Gone = Gone
    Users = {u1, u2}
    Accounts = {a1, a2}
    Categories = {c1, c2, c3}
    Transactions = {t1, t2}
    Budgets = {b1}
    Transfers = {x1}
    Requests = {r1, r2}
    Currencies = {"EUR", "USD"}
    Rates = {2, 3}
    Owner <- MCOwner
    Bills <- MCBills
    Sends = {1, 5}
    Today <- MCToday
    Queries <- MCQueries
SYMMETRY Interchangeable
CHECK_DEADLOCK FALSE
INVARIANTS
    TypeOK
    CalmTwoLevels
    BudgetCurrencyHolds
    ReportsAgree
    TransferConversion
