---------------------------- MODULE Bookkeeping ----------------------------
(***************************************************************************)
(* Accounts, categories, budgets and transfers of one workspace            *)
(* (backend/app/accounts, categories, budgets and transfers), and the      *)
(* reports read from them (Reports).  A request that writes what it must   *)
(* first check does so with SELECTs, then one INSERT or UPDATE and a       *)
(* COMMIT, under READ COMMITTED and with no lock on what it read; the rows *)
(* a foreign key names are the only thing looked at again by the write.    *)
(*                                                                         *)
(* How transactions and their lines are edited is CategorySplits; here     *)
(* they are posted in one step, for the reports to have something to say.  *)
(***************************************************************************)
EXTENDS Reports

CONSTANTS
    Users,
    Accounts, Categories, Transactions, Budgets, Transfers,  \* ids, given once
    Requests,     \* HTTP requests, each made at most once
    Currencies, Rates,
    Owner,        \* who an account belongs to, Null when it is shared
    Bills,        \* the transactions that may be posted
    Sends,        \* amounts a transfer may send, in half cents
    Today, Queries,
    Fresh, Gone   \* a row not yet inserted, and one deleted

ASSUME BookkeepingConstants ==
    /\ Rates \subseteq Nat \ {0} /\ Sends \subseteq Nat
    /\ Owner \in [Accounts -> Users \cup {Null}]
    /\ {Null, Fresh, Gone} \cap (Accounts \cup Categories \cup Budgets) = {}
    /\ Null # Fresh /\ Null # Gone /\ Fresh # Gone
    /\ IsFiniteSet(Categories) /\ IsFiniteSet(Transactions)
    /\ Today \in CalendarDates
    /\ \A q \in Queries : q.first \in CalendarDates /\ q.last \in CalendarDates
    /\ \A bill \in Bills :
        /\ bill.day \in CalendarDates
        /\ DOMAIN bill.lines \subseteq Categories
        /\ \A c \in DOMAIN bill.lines : bill.lines[c] \in Nat
    /\ {Fresh, Gone} \cap Bills = {}

VARIABLES
    accounts, categories, transactions, budgets, transfers,   \* the tables
    request,      \* how far each request is
    treeRaced,    \* history: a category was written after another since its checks
    raced         \* history: budgets a write of theirs, or of their account's
                  \* currency, has made inconsistent without any check

vars == <<accounts, categories, transactions, budgets, transfers,
          request, treeRaced, raced>>

There(table) == {i \in DOMAIN table : table[i] \notin {Fresh, Gone}}
Rows(table) == Restrict(table, There(table))

AccountRow == [currency : Currencies, rate : Rates, owner : Users \cup {Null}]
BudgetRow == [category : Categories, account : Accounts \cup {Null},
              currency : Currencies]
\* rates is history: the exchange rates the amount received was derived from.
TransferRow == [source : Accounts, target : Accounts, sent : Nat \ {0},
                received : Nat \ {0}, rates : Rates \X Rates]

ASSUME RowsAreThere ==
    {Fresh, Gone} \cap (AccountRow \cup BudgetRow \cup TransferRow) = {}

\* The columns a PATCH of a budget names and their new values.
BudgetFields == [category |-> Categories, account |-> Accounts \cup {Null},
                 currency |-> Currencies]
BudgetChanges ==
    {ch \in UNION {[fs -> Categories \cup Accounts \cup {Null} \cup Currencies] :
                       fs \in SUBSET DOMAIN BudgetFields} :
        \A f \in DOMAIN ch : ch[f] \in BudgetFields[f]}

\* A POST has Null for the row it has yet to make.  late: what the checks of
\* the request rested on was written since.
RequestState ==
    [at : {"new", "done"}]
    \cup [at : {"vetted", "cleared"}, category : Categories \cup {Null},
          parent : Categories \cup {Null}, late : BOOLEAN]
    \cup [at : {"budgeted"}, budget : Budgets \cup {Null}, changes : BudgetChanges,
          checked : Accounts \cup {Null}, late : BOOLEAN]
    \cup [at : {"quoted"}, source : Accounts, target : Accounts, sends : Sends,
          rate : Rates]

Visible(u) == VisibleAccounts([accounts |-> Rows(accounts)], u)
VisibleBudgets(u) ==
    {b \in There(budgets) : budgets[b].account \in {Null} \cup Visible(u)}

\* Where a write of table lands: in the row named, or in a new one.
Target(table, id) ==
    IF id = Null THEN {i \in DOMAIN table : table[i] = Fresh} ELSE {id}

Done(r) == [request EXCEPT ![r] = [at |-> "done"]]
\* The other requests among rs have lost the ground of their checks.
Overtake(r, rs) ==
    [q \in Requests |->
        IF q \in rs \ {r} THEN [request[q] EXCEPT !.late = TRUE] ELSE Done(r)[q]]
Refused(r) ==
    /\ request' = Done(r)
    /\ UNCHANGED <<accounts, categories, transactions, budgets, transfers,
                   treeRaced, raced>>
Proceed(r, state) ==
    /\ request' = [request EXCEPT ![r] = state]
    /\ UNCHANGED <<accounts, categories, transactions, budgets, transfers,
                   treeRaced, raced>>

-----------------------------------------------------------------------------
(* Categories: two levels, the parent of a child being a top-level one.    *)

Children(c) == {k \in There(categories) : categories[k] = c}
MayBeParent(p) == p \in There(categories) /\ categories[p] = Null

\* The foreign key of the table to itself.
ParentExists(p) == p # Null => p \in There(categories)

\* The reads of POST and PATCH but the last.  (A PATCH that names the parent
\* the category has writes nothing.)
VetCategory(r) ==
    /\ request[r].at = "new"
    /\ \E c \in There(categories) \cup {Null}, p \in Categories \cup {Null} :
        /\ c # Null => p # categories[c]
        /\ p # Null => p # c /\ MayBeParent(p)
        /\ Proceed(r, [at |-> IF c = Null \/ p = Null THEN "cleared" ELSE "vetted",
                       category |-> c, parent |-> p, late |-> FALSE])

\* Mutant: a category with children may become a child.
LookForNoChildren(r) ==
    /\ request[r].at = "vetted"
    /\ Proceed(r, [request[r] EXCEPT !.at = "cleared"])
\* The last read of a PATCH that names a parent.
LookForChildren(r) ==
    /\ request[r].at = "vetted"
    /\ IF Children(request[r].category) # {} THEN Refused(r)
       ELSE Proceed(r, [request[r] EXCEPT !.at = "cleared"])

\* An UPDATE that finds no row, and a parent that is gone, fail the request.
WriteCategory(r) ==
    /\ request[r].at = "cleared"
    /\ \E c \in Target(categories, request[r].category) :
        LET p == request[r].parent
        IN  IF /\ request[r].category # Null => c \in There(categories)
               /\ ParentExists(p)
            THEN /\ categories' = [categories EXCEPT ![c] = p]
                 /\ request' = Overtake(r, {q \in Requests :
                                   request[q].at \in {"vetted", "cleared"}})
                 /\ treeRaced' = (treeRaced \/ request[r].late)
                 /\ UNCHANGED <<accounts, transactions, budgets, transfers, raced>>
            ELSE Refused(r)

\* ON DELETE RESTRICT.
OnALine(c) == \E t \in There(transactions) : c \in DOMAIN transactions[t].lines
Budgeted(c) == \E b \in There(budgets) : budgets[b].category = c

DeleteCategory(r) ==
    /\ request[r].at = "new"
    /\ \E c \in There(categories) :
        /\ Children(c) = {} /\ ~OnALine(c) /\ ~Budgeted(c)
        /\ categories' = [categories EXCEPT ![c] = Gone]
    /\ request' = Done(r)
    /\ UNCHANGED <<accounts, transactions, budgets, transfers, treeRaced, raced>>

-----------------------------------------------------------------------------
(* Accounts: no other table is looked at, whatever is changed.             *)

CreateAccount(r) ==
    /\ request[r].at = "new"
    /\ \E a \in Accounts, currency \in Currencies, rate \in Rates :
        /\ accounts[a] = Fresh
        /\ accounts' = [accounts EXCEPT ![a] =
               [currency |-> currency, rate |-> rate, owner |-> Owner[a]]]
    /\ request' = Done(r)
    /\ UNCHANGED <<categories, transactions, budgets, transfers, treeRaced, raced>>

\* Budgets pinned to the account keep the currency they were made in.
UpdateAccount(r) ==
    /\ request[r].at = "new"
    /\ \E u \in Users : \E a \in Visible(u), currency \in Currencies, rate \in Rates :
        LET moved == currency # accounts[a].currency
        IN  /\ accounts' = [accounts EXCEPT ![a].currency = currency, ![a].rate = rate]
            /\ request' = Overtake(r, {q \in Requests :
                   moved /\ request[q].at = "budgeted" /\ request[q].checked = a})
            /\ raced' = raced \cup {b \in There(budgets) :
                                       moved /\ budgets[b].account = a}
    /\ UNCHANGED <<categories, transactions, budgets, transfers, treeRaced>>

-----------------------------------------------------------------------------
(* Budgets: one pinned to an account is in the currency of that account.   *)

\* Mutant: only the naming of an account is checked, not that of a currency.
CheckedAccountOnly(changes, row) ==
    IF "account" \in DOMAIN changes THEN row.account ELSE Null
\* The account whose currency is compared, if any.
CheckedAccount(changes, row) ==
    IF {"account", "currency"} \cap DOMAIN changes # {} THEN row.account ELSE Null

\* Mutant: the fields a PATCH leaves out are taken for null.
ChangedUnset(row, changes) ==
    [f \in DOMAIN row |-> IF f \in DOMAIN changes THEN changes[f] ELSE Null]
Changed(row, changes) ==
    [f \in DOMAIN row |-> IF f \in DOMAIN changes THEN changes[f] ELSE row[f]]

CheckBudget(r) ==
    /\ request[r].at = "new"
    /\ \E u \in Users : \E b \in VisibleBudgets(u) \cup {Null}, changes \in BudgetChanges :
        LET row == IF b = Null THEN changes ELSE Changed(budgets[b], changes)
            a == CheckedAccount(changes, row)
        IN  /\ b = Null => DOMAIN changes = DOMAIN BudgetFields
            /\ "category" \in DOMAIN changes => row.category \in There(categories)
            /\ a # Null => a \in Visible(u) /\ accounts[a].currency = row.currency
            /\ Proceed(r, [at |-> "budgeted", budget |-> b, checked |-> a, late |-> FALSE,
                   changes |-> Restrict(changes,
                       {f \in DOMAIN changes : b = Null \/ changes[f] # budgets[b][f]})])

\* The foreign key.
CategoryExists(c) == c \in There(categories)

\* The UPDATE sets the columns whose value the request changed and no other.
WriteBudget(r) ==
    /\ request[r].at = "budgeted"
    /\ \E b \in Target(budgets, request[r].budget) :
        LET changes == request[r].changes
        IN  IF /\ request[r].budget # Null => b \in There(budgets)
               /\ "category" \in DOMAIN changes => CategoryExists(changes.category)
            THEN /\ budgets' = [budgets EXCEPT ![b] =
                        IF budgets[b] = Fresh THEN changes ELSE Changed(@, changes)]
                 /\ request' = Overtake(r, {q \in Requests :
                        request[q].at = "budgeted" /\ request[q].budget = b})
                 /\ raced' = IF request[r].late THEN raced \cup {b} ELSE raced
                 /\ UNCHANGED <<accounts, categories, transactions, transfers, treeRaced>>
            ELSE Refused(r)

DeleteBudget(r) ==
    /\ request[r].at = "new"
    /\ \E u \in Users : \E b \in VisibleBudgets(u) :
           budgets' = [budgets EXCEPT ![b] = Gone]
    /\ request' = Done(r)
    /\ UNCHANGED <<accounts, categories, transactions, transfers, treeRaced, raced>>

-----------------------------------------------------------------------------
(* Transfers: the two accounts are read one after the other.               *)

QuoteTransfer(r) ==
    /\ request[r].at = "new"
    /\ \E u \in Users : \E a, b \in Visible(u), sends \in Sends :
        /\ a # b
        /\ Proceed(r, [at |-> "quoted", source |-> a, target |-> b, sends |-> sends,
                       rate |-> accounts[a].rate])

\* The CHECKs of the table.
TransferChecks(row) ==
    row.sent > 0 /\ row.received > 0 /\ row.source # row.target

\* numeric(18,2) rounds what was sent; what it derives the service checks.
CreateTransfer(r) ==
    /\ request[r].at = "quoted"
    /\ LET rate == accounts[request[r].target].rate
           row == [source |-> request[r].source, target |-> request[r].target,
                   sent |-> (request[r].sends + 1) \div 2,
                   received |-> Derived(request[r].sends, request[r].rate, rate),
                   rates |-> <<request[r].rate, rate>>]
       IN  IF row.received <= 0 \/ ~TransferChecks(row) THEN Refused(r)
           ELSE /\ \E x \in Target(transfers, Null) :
                    transfers' = [transfers EXCEPT ![x] = row]
                /\ request' = Done(r)
                /\ UNCHANGED <<accounts, categories, transactions, budgets,
                               treeRaced, raced>>

\* A transfer is visible to those who see both its accounts.
DeleteTransfer(r) ==
    /\ request[r].at = "new"
    /\ \E u \in Users, x \in There(transfers) :
        /\ {transfers[x].source, transfers[x].target} \subseteq Visible(u)
        /\ transfers' = [transfers EXCEPT ![x] = Gone]
    /\ request' = Done(r)
    /\ UNCHANGED <<accounts, categories, transactions, budgets, treeRaced, raced>>

-----------------------------------------------------------------------------

PostTransaction(r) ==
    /\ request[r].at = "new"
    /\ \E t \in Target(transactions, Null), u \in Users, bill \in Bills :
        /\ bill.account \in Visible(u)
        /\ DOMAIN bill.lines \subseteq There(categories)
        /\ transactions' = [transactions EXCEPT ![t] = bill]
    /\ request' = Done(r)
    /\ UNCHANGED <<accounts, categories, budgets, transfers, treeRaced, raced>>

Consistent(b) ==
    budgets[b].account # Null =>
        accounts[budgets[b].account].currency = budgets[b].currency

\* Any books that requests made one after the other leave behind.
Init ==
    /\ accounts \in [Accounts -> AccountRow \cup {Fresh}]
    /\ \A a \in There(accounts) : accounts[a].owner = Owner[a]
    /\ categories \in [Categories -> Categories \cup {Null, Fresh}]
    /\ \A c \in There(categories) : categories[c] # Null => MayBeParent(categories[c])
    /\ transactions \in [Transactions -> Bills \cup {Fresh}]
    /\ \A t \in There(transactions) :
        /\ transactions[t].account \in There(accounts)
        /\ DOMAIN transactions[t].lines \subseteq There(categories)
    /\ budgets \in [Budgets -> BudgetRow \cup {Fresh}]
    /\ \A b \in There(budgets) :
        /\ budgets[b].category \in There(categories)
        /\ budgets[b].account \in There(accounts) \cup {Null}
        /\ Consistent(b)
    /\ transfers = [x \in Transfers |-> Fresh]
    /\ request = [r \in Requests |-> [at |-> "new"]]
    /\ treeRaced = FALSE
    /\ raced = {}

Next == \E r \in Requests :
    \/ VetCategory(r) \/ LookForChildren(r) \/ WriteCategory(r) \/ DeleteCategory(r)
    \/ CreateAccount(r) \/ UpdateAccount(r)
    \/ CheckBudget(r) \/ WriteBudget(r) \/ DeleteBudget(r)
    \/ QuoteTransfer(r) \/ CreateTransfer(r) \/ DeleteTransfer(r)
    \/ PostTransaction(r)

Spec == Init /\ [][Next]_vars

-----------------------------------------------------------------------------

TypeOK ==
    /\ accounts \in [Accounts -> AccountRow \cup {Fresh}]
    /\ categories \in [Categories -> Categories \cup {Null, Fresh, Gone}]
    /\ transactions \in [Transactions -> Bills \cup {Fresh}]
    /\ budgets \in [Budgets -> BudgetRow \cup {Fresh, Gone}]
    /\ transfers \in [Transfers -> TransferRow \cup {Fresh, Gone}]
    /\ request \in [Requests -> RequestState]
    /\ treeRaced \in BOOLEAN /\ raced \subseteq Budgets

\* A third level of categories, on which the reports fail, can only come of
\* two category requests one of which writes after the other's checks: each
\* path of POST and PATCH alone keeps to two levels (categories/service.py).
CalmTwoLevels == treeRaced \/ CanRollUp(Rows(categories))

\* A budget pinned to an account is in the currency of that account, or every
\* amount is filtered out of it (budgets/service.py, queries.py); unless the
\* account changed currency under it, or two of its PATCHes crossed.
BudgetCurrencyHolds == \A b \in There(budgets) \ raced : Consistent(b)

Book == [accounts |-> Rows(accounts), parents |-> Rows(categories),
         transactions |-> Rows(transactions)]

\* The top level of the rolled-up breakdown sums to what its lines sum to.
RollUpKeeps(u, q) ==
    LET own == CategoryTotals(Book, u, q)
        top == {c \in There(categories) : categories[c] = Null}
    IN  SumFunctionOnSet(RollUp(own, Book.parents), top) = SumFunction(own)

\* So does the trend, by any bucket.
TrendKeeps(u, q) ==
    \A bucket \in Buckets :
        SumFunction([p \in Trend(Book, u, q, bucket) |-> p.total]) =
            SumFunction(CategoryTotals(Book, u, q))

\* The breakdown a budget is compared with: of this month, for its account.
BudgetQuery(b) ==
    [first |-> MonthBounds(Today).first, last |-> MonthBounds(Today).last,
     currency |-> budgets[b].currency, type |-> "expense", account |-> budgets[b].account]

\* Three queries written apart tell one story (reports/queries.py,
\* budgets/queries.py): the lines of the breakdown, its top level once the
\* children are rolled up, and the trend by any bucket sum to the same; and
\* what a budget has spent is the line of its category in the breakdown of
\* the month for its account and currency.
ReportsAgree ==
    CanRollUp(Rows(categories)) =>
    \A u \in Users :
        /\ \A q \in Queries : RollUpKeeps(u, q) /\ TrendKeeps(u, q)
        /\ \A b \in VisibleBudgets(u) :
            BudgetSpent(Book, u, budgets[b], Today) =
                CategoryTotals(Book, u, BudgetQuery(b))[budgets[b].category]

\* What a transfer delivers is what was sent at the rates read for it, but for
\* half a cent on either side (transfers/service.py): one rounding of an exact
\* product, whatever the rates, and one by the column.
TransferConversion ==
    \A x \in There(transfers) :
        LET row == transfers[x]
            error == 2 * (row.received * row.rates[2] - row.sent * row.rates[1])
            slack == row.rates[1] + row.rates[2]
        IN  -slack <= error /\ error <= slack
=============================================================================
