--------------------------- MODULE MCBookkeeping ---------------------------
(***************************************************************************)
(* Two users, a shared account and one of the first user's own; a flat     *)
(* tree and one with a child; New Year 2024, when a week, a month and a    *)
(* year all turn between the 31 December, a Sunday, and the day after.     *)
(* Bills are a purchase split over a parent and its child, a refund, an    *)
(* income, and a refund on the last day of the month of the budgets.       *)
(***************************************************************************)
EXTENDS Bookkeeping, TLC

CONSTANTS a1, a2, c1, c2, c3, u1, t1, t2, b1

Date(y, m, d) == [year |-> y, month |-> m, day |-> d]

MCOwner == a1 :> Null @@ a2 :> u1
Bill(a, day, type, refund, lines) ==
    [account |-> a, day |-> day, type |-> type, refund |-> refund, lines |-> lines]
MCBills == {Bill(a1, Date(2024, 1, 1), "expense", FALSE, c1 :> 3 @@ c2 :> 2),
            Bill(a1, Date(2023, 12, 31), "expense", TRUE, c2 :> 5),
            Bill(a2, Date(2024, 1, 31), "expense", TRUE, c1 :> 7),
            Bill(a2, Date(2024, 1, 2), "income", FALSE, c3 :> 11)}
MCToday == Date(2024, 1, 15)
MCQueries == {[first |-> Date(2023, 12, 30), last |-> Date(2024, 1, 2),
               currency |-> "USD", type |-> "expense", account |-> Null]}

\* Some of the books of Init.
MCInit ==
    /\ Init
    /\ accounts[a1] = [currency |-> "USD", rate |-> 2, owner |-> Null]
    /\ accounts[a2] # Fresh => accounts[a2].rate = 3
    /\ categories[c1] = Null /\ categories[c2] \in {Null, c1} /\ categories[c3] \in {Null, Fresh}
    /\ categories[c3] = Fresh => categories[c2] = c1 /\ budgets[b1] = Fresh
    /\ transactions[t1] # Fresh /\ transactions[t2] = Fresh
    /\ budgets[b1] # Fresh => budgets[b1].category = c1 /\ budgets[b1].currency = "USD"
MCSpec == MCInit /\ [][Next]_vars

Interchangeable == Permutations(Requests)
=============================================================================
