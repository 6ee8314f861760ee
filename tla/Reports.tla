------------------------------ MODULE Reports ------------------------------
(***************************************************************************)
(* What the application computes from its books and never stores: the      *)
(* category breakdown and the trend of backend/app/reports, the progress   *)
(* of a budget (backend/app/budgets) and the amount a transfer delivers    *)
(* (backend/app/transfers).  Pure definitions; Bookkeeping applies them to *)
(* its state.                                                              *)
(*                                                                         *)
(* A book is a record of tables, each a function on the rows there are:    *)
(*   accounts      [currency, rate, owner], owner Null for a shared one    *)
(*   parents       the parent of each category, Null for a top-level one   *)
(*   transactions  [account, day, type, refund, lines], lines mapping      *)
(*                 categories to amounts; drafts are not in it             *)
(* A query is a record [first, last, currency, type, account], account     *)
(* Null for all; days are the dates of Calendar.                           *)
(***************************************************************************)
EXTENDS Calendar, FiniteSets, Functions

CONSTANT Null

Buckets == {"day", "week", "month", "year"}

NotAfter(d, e) == Ordinal(d) <= Ordinal(e)

VisibleAccounts(book, u) ==
    {a \in DOMAIN book.accounts : book.accounts[a].owner \in {Null, u}}

VisibleTransactions(book, u, account, first, last) ==
    {t \in DOMAIN book.transactions :
        LET row == book.transactions[t]
        IN  /\ row.account \in VisibleAccounts(book, u)
            /\ account \in {Null, row.account}
            /\ NotAfter(first, row.day) /\ NotAfter(row.day, last)}

\* What a line counts for.  Each of the three aggregate queries has its own CASE:
\* nothing in another currency; else a refund first, whose type is "expense", and
\* then the type.
InCurrency(book, row, currency) == book.accounts[row.account].currency = currency

BreakdownAmount(book, row, q, amount) ==
    IF ~InCurrency(book, row, q.currency) THEN 0
    ELSE IF row.refund THEN -amount
    ELSE IF row.type = q.type THEN amount ELSE 0

TrendAmount(book, row, q, amount) ==
    IF ~InCurrency(book, row, q.currency) THEN 0
    ELSE IF row.refund THEN -amount
    ELSE IF row.type = q.type THEN amount ELSE 0

\* Variant: the type is looked at before the refund.
BudgetAmountByType(book, row, budget, amount) ==
    IF ~InCurrency(book, row, budget.currency) THEN 0
    ELSE IF row.type = "expense" THEN amount
    ELSE IF row.refund THEN -amount ELSE 0
BudgetAmount(book, row, budget, amount) ==
    IF ~InCurrency(book, row, budget.currency) THEN 0
    ELSE IF row.refund THEN -amount
    ELSE IF row.type = "expense" THEN amount ELSE 0

-----------------------------------------------------------------------------
(* The breakdown: one aggregate over the categories, then a fold that adds  *)
(* each child to its parent.                                               *)

CategoryTotals(book, u, q) ==
    LET seen == VisibleTransactions(book, u, q.account, q.first, q.last)
    IN  [c \in DOMAIN book.parents |->
            SumFunction([t \in {t \in seen : c \in DOMAIN book.transactions[t].lines} |->
                BreakdownAmount(book, book.transactions[t], q,
                                book.transactions[t].lines[c])])]

\* The fold raises on a parent that has a parent.
CanRollUp(parents) ==
    \A c \in DOMAIN parents : parents[c] # Null => parents[parents[c]] = Null

RollUp(own, parents) ==
    [c \in DOMAIN parents |->
        own[c] + SumFunctionOnSet(own, {k \in DOMAIN parents : parents[k] = c})]

-----------------------------------------------------------------------------
(* The trend: sparse sums by PostgreSQL's date_trunc, laid over the dense   *)
(* series of the calendar's buckets.                                       *)

\* date + timedelta(days=n), for n no longer than the shortest month.
PlusDays(d, n) ==
    LET day == d.day + n
        length == MonthLength(d.year, d.month)
        before == IF d.month = 1 THEN [d EXCEPT !.year = @ - 1, !.month = 12]
                  ELSE [d EXCEPT !.month = @ - 1]
        after == IF d.month = 12 THEN [d EXCEPT !.year = @ + 1, !.month = 1]
                 ELSE [d EXCEPT !.month = @ + 1]
    IN  IF day < 1
        THEN [before EXCEPT !.day = day + MonthLength(before.year, before.month)]
        ELSE IF day > length THEN [after EXCEPT !.day = day - length]
        ELSE [d EXCEPT !.day = day]

\* date.weekday(): Monday is 0.
Weekday(d) == (Ordinal(d) - 1) % 7

\* date_trunc: the last day up to d that begins a bucket.
DateTrunc(bucket, d) ==
    CASE bucket = "day" -> d
      [] bucket = "week" ->
            CHOOSE e \in {PlusDays(d, -n) : n \in 0..6} : Weekday(e) = 0
      [] bucket = "month" -> [d EXCEPT !.day = 1]
      [] bucket = "year" -> [d EXCEPT !.day = 1, !.month = 1]

MonthBounds(d) ==
    [first |-> [d EXCEPT !.day = 1],
     last |-> [d EXCEPT !.day = MonthLength(d.year, d.month)]]

\* Mutant: weeks begin on Sunday.
BucketBoundsSunday(d, bucket) ==
    LET sunday == PlusDays(d, -((Weekday(d) + 1) % 7))
    IN  CASE bucket = "day" -> [first |-> d, last |-> d]
          [] bucket = "week" -> [first |-> sunday,
                                 last |-> PlusDays(sunday, 6)]
          [] bucket = "month" -> MonthBounds(d)
          [] bucket = "year" -> [first |-> [d EXCEPT !.day = 1, !.month = 1],
                                 last |-> [d EXCEPT !.day = 31, !.month = 12]]
BucketBounds(d, bucket) ==
    LET monday == PlusDays(d, -Weekday(d))
    IN  CASE bucket = "day" -> [first |-> d, last |-> d]
          [] bucket = "week" -> [first |-> monday, last |-> PlusDays(monday, 6)]
          [] bucket = "month" -> MonthBounds(d)
          [] bucket = "year" -> [first |-> [d EXCEPT !.day = 1, !.month = 1],
                                 last |-> [d EXCEPT !.day = 31, !.month = 12]]

\* Rows for the buckets in which a visible transaction has a line.
TrendTotals(book, u, q, bucket) ==
    LET seen == {t \in VisibleTransactions(book, u, q.account, q.first, q.last) :
                    book.transactions[t].lines # <<>>}
        start == [t \in seen |-> DateTrunc(bucket, book.transactions[t].day)]
        value == [t \in seen |->
            SumFunction([c \in DOMAIN book.transactions[t].lines |->
                TrendAmount(book, book.transactions[t], q,
                            book.transactions[t].lines[c])])]
    IN  [s \in Range(start) |-> SumFunctionOnSet(value, {t \in seen : start[t] = s})]

\* The walk from the bucket of the first day to that of the last.
DenseSeries(rows, q, bucket) ==
    LET From[d \in CalendarDates] ==
            LET b == BucketBounds(d, bucket)
            IN  IF ~NotAfter(d, q.last) THEN {}
                ELSE {[first |-> b.first, last |-> b.last,
                       total |-> IF b.first \in DOMAIN rows THEN rows[b.first] ELSE 0]}
                     \cup From[PlusDays(b.last, 1)]
    IN  From[BucketBounds(q.first, bucket).first]

Trend(book, u, q, bucket) == DenseSeries(TrendTotals(book, u, q, bucket), q, bucket)

-----------------------------------------------------------------------------
(* Budgets and transfers.                                                  *)

\* What was spent on a budget [category, account, currency] in a month: the account
\* is a condition of this query's own join.
BudgetSpent(book, u, budget, today) ==
    LET month == MonthBounds(today)
        seen == {t \in VisibleTransactions(book, u, Null, month.first, month.last) :
                    budget.account \in {Null, book.transactions[t].account}}
        spent == {t \in seen : budget.category \in DOMAIN book.transactions[t].lines}
    IN  SumFunction([t \in spent |->
            BudgetAmount(book, book.transactions[t], budget,
                         book.transactions[t].lines[budget.category])])

\* Mutant: the rates are taken the wrong way round.
DerivedBackwards(halves, fromRate, toRate) ==
    (halves * toRate + fromRate) \div (2 * fromRate)
\* The amount received for one sent, to the nearest cent, a half upwards.  A
\* request sends amounts of any precision: they are counted in half cents,
\* what is received in cents.
Derived(halves, fromRate, toRate) ==
    (halves * fromRate + toRate) \div (2 * toRate)
=============================================================================
