------------------------- MODULE BookkeepingProofs -------------------------
(***************************************************************************)
(* Proofs about Bookkeeping: its types, the two levels of categories, the  *)
(* currency of pinned budgets, the conversion of transfers, and the        *)
(* agreement of the reports.                                               *)
(***************************************************************************)
EXTENDS Bookkeeping, ArithmeticProofs, TLAPS

-----------------------------------------------------------------------------
(* The changes a request makes to a budget.                                *)

LEMMA ChangesFields ==
  ASSUME NEW ch \in BudgetChanges
  PROVE  /\ DOMAIN ch \subseteq {"category", "account", "currency"}
         /\ "category" \in DOMAIN ch => ch["category"] \in Categories
         /\ "account" \in DOMAIN ch => ch["account"] \in Accounts \cup {Null}
         /\ "currency" \in DOMAIN ch => ch["currency"] \in Currencies
<1>1. PICK fs \in SUBSET DOMAIN BudgetFields :
        ch \in [fs -> Categories \cup Accounts \cup {Null} \cup Currencies]
  BY DEF BudgetChanges
<1>2. \A f \in DOMAIN ch : ch[f] \in BudgetFields[f]
  BY DEF BudgetChanges
<1> QED
  BY <1>1, <1>2 DEF BudgetFields

LEMMA RestrictedChanges ==
  ASSUME NEW ch \in BudgetChanges, NEW S \in SUBSET DOMAIN ch
  PROVE  Restrict(ch, S) \in BudgetChanges
<1>1. PICK fs \in SUBSET DOMAIN BudgetFields :
        ch \in [fs -> Categories \cup Accounts \cup {Null} \cup Currencies]
  BY DEF BudgetChanges
<1>2. \A f \in DOMAIN ch : ch[f] \in BudgetFields[f]
  BY DEF BudgetChanges
<1>3. S \in SUBSET DOMAIN BudgetFields
  BY <1>1
<1>4. Restrict(ch, S) \in [S -> Categories \cup Accounts \cup {Null} \cup Currencies]
  BY <1>1 DEF Restrict
<1>5. \A f \in DOMAIN Restrict(ch, S) : Restrict(ch, S)[f] \in BudgetFields[f]
  BY <1>2 DEF Restrict
<1> QED
  BY <1>3, <1>4, <1>5 DEF BudgetChanges

LEMMA FullChanges ==
  ASSUME NEW ch \in BudgetChanges, DOMAIN ch = DOMAIN BudgetFields
  PROVE  ch \in BudgetRow
<1>1. PICK fs \in SUBSET DOMAIN BudgetFields :
        ch \in [fs -> Categories \cup Accounts \cup {Null} \cup Currencies]
  BY DEF BudgetChanges
<1>2. DOMAIN ch = {"category", "account", "currency"}
  BY DEF BudgetFields
<1>3. ch = [f \in {"category", "account", "currency"} |-> ch[f]]
  BY <1>1, <1>2
<1> QED
  BY <1>2, <1>3, ChangesFields DEF BudgetRow

LEMMA ChangedRow ==
  ASSUME NEW row \in BudgetRow, NEW ch \in BudgetChanges
  PROVE  Changed(row, ch) \in BudgetRow
  BY ChangesFields DEF Changed, BudgetRow

-----------------------------------------------------------------------------
(* Types.                                                                  *)

\* A request whose amounts are whole numbers derives a whole number.
LEMMA DerivedIsWhole ==
  ASSUME NEW h \in Nat, NEW f \in Nat \ {0}, NEW t \in Nat \ {0}
  PROVE  Derived(h, f, t) \in Int
<1>1. h * f \in Nat
  OBVIOUS
<1> QED
  BY <1>1 DEF Derived

\* TypeOK and what the types of requests do not say.  A POST of a budget has
\* all the fields of a row.
FullPosts == \A r \in Requests :
    request[r].at = "budgeted" /\ request[r].budget = Null =>
        DOMAIN request[r].changes = DOMAIN BudgetFields
\* The accounts of a transfer that was quoted are there.
QuotedThere == \A r \in Requests :
    request[r].at = "quoted" => accounts[request[r].target] \in AccountRow
TypeInv == TypeOK /\ FullPosts /\ QuotedThere

LEMMA RequestShape ==
  ASSUME request \in [Requests -> RequestState], NEW r \in Requests
  PROVE  /\ request[r].at \in {"vetted", "cleared"} =>
              request[r] \in [at : {"vetted", "cleared"},
                  category : Categories \cup {Null}, parent : Categories \cup {Null},
                  late : BOOLEAN]
         /\ request[r].at = "budgeted" =>
              request[r] \in [at : {"budgeted"}, budget : Budgets \cup {Null},
                  changes : BudgetChanges, checked : Accounts \cup {Null},
                  late : BOOLEAN]
         /\ request[r].at = "quoted" =>
              request[r] \in [at : {"quoted"}, source : Accounts, target : Accounts,
                  sends : Sends, rate : Rates]
<1>1. request[r] \in RequestState
  OBVIOUS
<1> QED
  BY <1>1 DEF RequestState

LEMMA DoneTyped ==
  ASSUME request \in [Requests -> RequestState], NEW r \in Requests
  PROVE  Done(r) \in [Requests -> RequestState]
  BY DEF Done, RequestState

LEMMA OvertakeTyped ==
  ASSUME request \in [Requests -> RequestState], NEW r \in Requests,
         NEW rs \in SUBSET Requests,
         \A q \in rs : request[q].at \in {"vetted", "cleared", "budgeted"}
  PROVE  /\ Overtake(r, rs) \in [Requests -> RequestState]
         /\ \A q \in Requests \ {r} :
               IF q \in rs
               THEN Overtake(r, rs)[q] = [request[q] EXCEPT !.late = TRUE]
               ELSE Overtake(r, rs)[q] = request[q]
         /\ Overtake(r, rs)[r] = [at |-> "done"]
<1>1. ASSUME NEW q \in rs PROVE [request[q] EXCEPT !.late = TRUE] \in RequestState
  <2>1. CASE request[q].at = "budgeted"
    <3>1. request[q] \in [at : {"budgeted"}, budget : Budgets \cup {Null},
                  changes : BudgetChanges, checked : Accounts \cup {Null},
                  late : BOOLEAN]
      BY <2>1, RequestShape
    <3>2. [request[q] EXCEPT !.late = TRUE] \in
                [at : {"budgeted"}, budget : Budgets \cup {Null},
                  changes : BudgetChanges, checked : Accounts \cup {Null},
                  late : BOOLEAN]
      BY <3>1
    <3> QED
      BY <3>2 DEF RequestState
  <2>2. CASE request[q].at \in {"vetted", "cleared"}
    <3>1. request[q] \in [at : {"vetted", "cleared"},
                  category : Categories \cup {Null}, parent : Categories \cup {Null},
                  late : BOOLEAN]
      BY <2>2, RequestShape
    <3>2. [request[q] EXCEPT !.late = TRUE] \in
                [at : {"vetted", "cleared"},
                  category : Categories \cup {Null}, parent : Categories \cup {Null},
                  late : BOOLEAN]
      BY <3>1
    <3> QED
      BY <3>2 DEF RequestState
  <2> QED
    BY <2>1, <2>2
<1>2. Done(r) \in [Requests -> RequestState]
  BY DoneTyped
<1>3. Done(r)[r] = [at |-> "done"] /\ \A q \in Requests \ {r} : Done(r)[q] = request[q]
  BY DEF Done
<1> QED
  BY <1>1, <1>2, <1>3 DEF Overtake

LEMMA TypeInit == Init => TypeInv
<1> SUFFICES ASSUME Init PROVE TypeInv
  OBVIOUS
<1>1. request \in [Requests -> RequestState]
  BY DEF Init, RequestState
<1>2. \A r \in Requests : request[r].at = "new"
  BY DEF Init
<1>3. /\ accounts \in [Accounts -> AccountRow \cup {Fresh}]
      /\ categories \in [Categories -> Categories \cup {Null, Fresh, Gone}]
      /\ transactions \in [Transactions -> Bills \cup {Fresh}]
      /\ budgets \in [Budgets -> BudgetRow \cup {Fresh, Gone}]
      /\ transfers \in [Transfers -> TransferRow \cup {Fresh, Gone}]
      /\ treeRaced \in BOOLEAN /\ raced \subseteq Budgets
  BY DEF Init
<1> QED
  BY <1>1, <1>2, <1>3 DEF TypeInv, TypeOK, FullPosts, QuotedThere

\* Steps that only take a request on.
LEMMA ProceedType ==
  ASSUME TypeInv, NEW r \in Requests, NEW state \in RequestState, Proceed(r, state),
         state.at = "budgeted" /\ state.budget = Null =>
             DOMAIN state.changes = DOMAIN BudgetFields,
         state.at = "quoted" => accounts[state.target] \in AccountRow
  PROVE  TypeInv'
  BY DEF TypeInv, TypeOK, FullPosts, QuotedThere, Proceed

LEMMA DoneType ==
  ASSUME TypeInv, NEW r \in Requests, request' = Done(r),
         \A a \in Accounts : accounts[a] \in AccountRow => accounts'[a] \in AccountRow
  PROVE  request' \in [Requests -> RequestState] /\ FullPosts' /\ QuotedThere'
<1>1. request' \in [Requests -> RequestState]
  BY DoneTyped DEF TypeInv, TypeOK
<1>2. \A q \in Requests :
        request'[q].at \in {"budgeted", "quoted"} => request'[q] = request[q]
  BY DEF Done, TypeInv, TypeOK
<1>3. \A q \in Requests : request[q].at = "quoted" => request[q].target \in Accounts
  BY RequestShape DEF TypeInv, TypeOK
<1> QED
  BY <1>1, <1>2, <1>3 DEF FullPosts, QuotedThere, TypeInv

LEMMA RefusedType ==
  ASSUME TypeInv, NEW r \in Requests, Refused(r)
  PROVE  TypeInv'
  BY DoneType DEF Refused, TypeInv, TypeOK

LEMMA OvertakeType ==
  ASSUME TypeInv, NEW r \in Requests, NEW rs \in SUBSET Requests,
         \A q \in rs : request[q].at \in {"vetted", "cleared", "budgeted"},
         request' = Overtake(r, rs),
         \A a \in Accounts : accounts[a] \in AccountRow => accounts'[a] \in AccountRow
  PROVE  request' \in [Requests -> RequestState] /\ FullPosts' /\ QuotedThere'
<1>1. request \in [Requests -> RequestState]
  BY DEF TypeInv, TypeOK
<1>2. ASSUME NEW q \in Requests, request'[q].at = "budgeted", request'[q].budget = Null
      PROVE  DOMAIN request'[q].changes = DOMAIN BudgetFields
  <2>1. q # r
    BY <1>1, <1>2, OvertakeTyped
  <2>2. CASE q \notin rs
    <3>1. request'[q] = request[q]
      BY <1>1, <2>1, <2>2 DEF Overtake, Done
    <3> QED
      BY <3>1, <1>2 DEF TypeInv, FullPosts
  <2>3. CASE q \in rs
    <3>1. request'[q] = [request[q] EXCEPT !.late = TRUE]
      BY <1>1, <2>1, <2>3, OvertakeTyped
    <3>2. request[q].at \in {"vetted", "cleared", "budgeted"}
      BY <2>3
    <3>3. \/ request[q] \in [at : {"vetted", "cleared"},
                  category : Categories \cup {Null}, parent : Categories \cup {Null},
                  late : BOOLEAN]
          \/ request[q] \in [at : {"budgeted"}, budget : Budgets \cup {Null},
                  changes : BudgetChanges, checked : Accounts \cup {Null},
                  late : BOOLEAN]
      BY <1>1, <3>2, RequestShape
    <3>4. request[q] \in [at : {"budgeted"}, budget : Budgets \cup {Null},
                  changes : BudgetChanges, checked : Accounts \cup {Null},
                  late : BOOLEAN]
      BY <3>1, <3>3, <1>2
    <3>5. /\ request[q].at = "budgeted"
          /\ request'[q].budget = request[q].budget
          /\ request'[q].changes = request[q].changes
      BY <3>1, <3>4
    <3> QED
      BY <3>5, <1>2 DEF TypeInv, FullPosts
  <2> QED
    BY <2>2, <2>3
<1>3. ASSUME NEW q \in Requests, request'[q].at = "quoted"
      PROVE  accounts'[request'[q].target] \in AccountRow
  <2>1. q # r
    BY <1>1, <1>3, OvertakeTyped
  <2>2. q \notin rs
    <3>1. CASE q \in rs
      <4>1. request'[q] = [request[q] EXCEPT !.late = TRUE]
        BY <1>1, <2>1, <3>1, OvertakeTyped
      <4>2. \/ request[q] \in [at : {"vetted", "cleared"},
                  category : Categories \cup {Null}, parent : Categories \cup {Null},
                  late : BOOLEAN]
            \/ request[q] \in [at : {"budgeted"}, budget : Budgets \cup {Null},
                  changes : BudgetChanges, checked : Accounts \cup {Null},
                  late : BOOLEAN]
        BY <1>1, <3>1, RequestShape
      <4> QED
        BY <1>3, <4>1, <4>2
    <3> QED
      BY <3>1
  <2>3. request'[q] = request[q]
    BY <1>1, <2>1, <2>2 DEF Overtake, Done
  <2>4. request[q].target \in Accounts
    BY <1>1, <1>3, <2>3, RequestShape
  <2> QED
    BY <1>3, <2>3, <2>4 DEF QuotedThere, TypeInv
<1> QED
  BY <1>1, <1>2, <1>3, OvertakeTyped DEF FullPosts, QuotedThere

LEMMA CategoryType ==
  ASSUME TypeInv, NEW r \in Requests,
         \/ VetCategory(r) \/ LookForChildren(r) \/ WriteCategory(r) \/ DeleteCategory(r)
  PROVE  TypeInv'
<1> USE DEF There
<1>0. /\ request \in [Requests -> RequestState]
      /\ categories \in [Categories -> Categories \cup {Null, Fresh, Gone}]
  BY DEF TypeInv, TypeOK
<1>1. CASE VetCategory(r)
  <2>1. PICK c \in There(categories) \cup {Null}, p \in Categories \cup {Null} :
          Proceed(r, [at |-> IF c = Null \/ p = Null THEN "cleared" ELSE "vetted",
                      category |-> c, parent |-> p, late |-> FALSE])
    BY <1>1 DEF VetCategory
  <2> DEFINE state == [at |-> IF c = Null \/ p = Null THEN "cleared" ELSE "vetted",
                       category |-> c, parent |-> p, late |-> FALSE]
  <2>2. c \in Categories \cup {Null}
    BY <1>0
  <2>3. state \in [at : {"vetted", "cleared"}, category : Categories \cup {Null},
                   parent : Categories \cup {Null}, late : BOOLEAN]
    BY <2>2
  <2>4. state \in RequestState /\ state.at \notin {"budgeted", "quoted"}
    BY <2>3 DEF RequestState
  <2> QED
    BY <2>1, <2>4, ProceedType
<1>2. CASE LookForChildren(r)
  <2>1. CASE Refused(r)
    BY <2>1, RefusedType
  <2>2. CASE Proceed(r, [request[r] EXCEPT !.at = "cleared"])
    <3>1. request[r] \in [at : {"vetted", "cleared"},
                  category : Categories \cup {Null}, parent : Categories \cup {Null},
                  late : BOOLEAN]
      BY <1>0, <1>2, RequestShape DEF LookForChildren
    <3>2. [request[r] EXCEPT !.at = "cleared"] \in [at : {"vetted", "cleared"},
                  category : Categories \cup {Null}, parent : Categories \cup {Null},
                  late : BOOLEAN]
      BY <3>1
    <3>3. [request[r] EXCEPT !.at = "cleared"] \in RequestState
      BY <3>2 DEF RequestState
    <3>4. [request[r] EXCEPT !.at = "cleared"].at \notin {"budgeted", "quoted"}
      BY <3>1
    <3> QED
      BY <2>2, <3>3, <3>4, ProceedType
  <2> QED
    BY <1>2, <2>1, <2>2 DEF LookForChildren
<1>3. CASE WriteCategory(r)
  <2>1. PICK c \in Target(categories, request[r].category) :
          \/ Refused(r)
          \/ /\ request[r].category # Null => c \in There(categories)
             /\ categories' = [categories EXCEPT ![c] = request[r].parent]
             /\ request' = Overtake(r, {q \in Requests :
                               request[q].at \in {"vetted", "cleared"}})
             /\ treeRaced' = (treeRaced \/ request[r].late)
             /\ UNCHANGED <<accounts, transactions, budgets, transfers, raced>>
    BY <1>3 DEF WriteCategory
  <2>2. CASE Refused(r)
    BY <2>2, RefusedType
  <2>3. CASE ~Refused(r)
    <3>1. request[r] \in [at : {"vetted", "cleared"},
                  category : Categories \cup {Null}, parent : Categories \cup {Null},
                  late : BOOLEAN]
      BY <1>0, <1>3, RequestShape DEF WriteCategory
    <3>2. categories' \in [Categories -> Categories \cup {Null, Fresh, Gone}]
      BY <1>0, <2>1, <2>3, <3>1
    <3>3. treeRaced' \in BOOLEAN
      BY <2>1, <2>3, <3>1 DEF TypeInv, TypeOK
    <3>4. request' \in [Requests -> RequestState] /\ FullPosts' /\ QuotedThere'
      BY <2>1, <2>3, OvertakeType
    <3> QED
      BY <2>1, <2>3, <3>2, <3>3, <3>4 DEF TypeInv, TypeOK
  <2> QED
    BY <2>2, <2>3
<1>4. CASE DeleteCategory(r)
  <2>1. request' \in [Requests -> RequestState] /\ FullPosts' /\ QuotedThere'
    BY <1>4, DoneType DEF DeleteCategory
  <2>2. categories' \in [Categories -> Categories \cup {Null, Fresh, Gone}]
    BY <1>0, <1>4 DEF DeleteCategory
  <2> QED
    BY <1>4, <2>1, <2>2 DEF DeleteCategory, TypeInv, TypeOK
<1> QED
  BY <1>1, <1>2, <1>3, <1>4

LEMMA AccountType ==
  ASSUME TypeInv, NEW r \in Requests, CreateAccount(r) \/ UpdateAccount(r)
  PROVE  TypeInv'
<1>0. accounts \in [Accounts -> AccountRow \cup {Fresh}]
  BY DEF TypeInv, TypeOK
<1>1. CASE CreateAccount(r)
  <2>2. PICK a \in Accounts, currency \in Currencies, rate \in Rates :
          accounts' = [accounts EXCEPT ![a] =
              [currency |-> currency, rate |-> rate, owner |-> Owner[a]]]
    BY <1>1 DEF CreateAccount
  <2>3. accounts' \in [Accounts -> AccountRow \cup {Fresh}]
    BY <1>0, <2>2, BookkeepingConstants DEF AccountRow
  <2>1. \A b \in Accounts : accounts[b] \in AccountRow => accounts'[b] \in AccountRow
    BY <1>0, <2>2, BookkeepingConstants DEF AccountRow
  <2>4. request' \in [Requests -> RequestState] /\ FullPosts' /\ QuotedThere'
    BY <1>1, <2>1, DoneType DEF CreateAccount
  <2> QED
    BY <1>1, <2>4, <2>3 DEF CreateAccount, TypeInv, TypeOK
<1>2. CASE UpdateAccount(r)
  <2>0. PICK u \in Users : \E a \in Visible(u), currency \in Currencies, rate \in Rates :
          /\ accounts' = [accounts EXCEPT ![a].currency = currency, ![a].rate = rate]
          /\ request' = Overtake(r, {q \in Requests :
                 currency # accounts[a].currency
                    /\ request[q].at = "budgeted" /\ request[q].checked = a})
          /\ raced' = raced \cup {b \in There(budgets) :
                 currency # accounts[a].currency /\ budgets[b].account = a}
    BY <1>2 DEF UpdateAccount
  <2>1. PICK a \in Visible(u), currency \in Currencies, rate \in Rates :
          /\ accounts' = [accounts EXCEPT ![a].currency = currency, ![a].rate = rate]
          /\ request' = Overtake(r, {q \in Requests :
                 currency # accounts[a].currency
                    /\ request[q].at = "budgeted" /\ request[q].checked = a})
          /\ raced' = raced \cup {b \in There(budgets) :
                 currency # accounts[a].currency /\ budgets[b].account = a}
    BY <2>0
  <2>2. a \in Accounts /\ accounts[a] \in AccountRow
    BY <1>0 DEF Visible, VisibleAccounts, Rows, Restrict, There
  <2>3. accounts' \in [Accounts -> AccountRow \cup {Fresh}]
    BY <1>0, <2>1, <2>2 DEF AccountRow
  <2>6. \A b \in Accounts : accounts[b] \in AccountRow => accounts'[b] \in AccountRow
    BY <1>0, <2>1, <2>2 DEF AccountRow
  <2>4. request' \in [Requests -> RequestState] /\ FullPosts' /\ QuotedThere'
    BY <2>1, <2>6, OvertakeType
  <2>5. raced' \subseteq Budgets
    BY <2>1 DEF TypeInv, TypeOK, There
  <2> QED
    BY <1>2, <2>3, <2>4, <2>5 DEF UpdateAccount, TypeInv, TypeOK
<1> QED
  BY <1>1, <1>2

LEMMA BudgetType ==
  ASSUME TypeInv, NEW r \in Requests,
         CheckBudget(r) \/ WriteBudget(r) \/ DeleteBudget(r)
  PROVE  TypeInv'
<1>0. /\ budgets \in [Budgets -> BudgetRow \cup {Fresh, Gone}]
      /\ accounts \in [Accounts -> AccountRow \cup {Fresh}]
      /\ request \in [Requests -> RequestState]
      /\ raced \subseteq Budgets
  BY DEF TypeInv, TypeOK
<1>1. CASE CheckBudget(r)
  <2>1. PICK u \in Users :
          \E b \in VisibleBudgets(u) \cup {Null}, changes \in BudgetChanges :
            LET row == IF b = Null THEN changes ELSE Changed(budgets[b], changes)
                a == CheckedAccount(changes, row)
            IN  /\ b = Null => DOMAIN changes = DOMAIN BudgetFields
                /\ "category" \in DOMAIN changes => row.category \in There(categories)
                /\ a # Null => a \in Visible(u) /\ accounts[a].currency = row.currency
                /\ Proceed(r, [at |-> "budgeted", budget |-> b, checked |-> a,
                       late |-> FALSE,
                       changes |-> Restrict(changes,
                           {f \in DOMAIN changes : b = Null \/ changes[f] # budgets[b][f]})])
    BY <1>1 DEF CheckBudget
  <2>2. PICK b \in VisibleBudgets(u) \cup {Null}, changes \in BudgetChanges :
            LET row == IF b = Null THEN changes ELSE Changed(budgets[b], changes)
                a == CheckedAccount(changes, row)
            IN  /\ b = Null => DOMAIN changes = DOMAIN BudgetFields
                /\ "category" \in DOMAIN changes => row.category \in There(categories)
                /\ a # Null => a \in Visible(u) /\ accounts[a].currency = row.currency
                /\ Proceed(r, [at |-> "budgeted", budget |-> b, checked |-> a,
                       late |-> FALSE,
                       changes |-> Restrict(changes,
                           {f \in DOMAIN changes : b = Null \/ changes[f] # budgets[b][f]})])
    BY <2>1
  <2> DEFINE row == IF b = Null THEN changes ELSE Changed(budgets[b], changes)
             a == CheckedAccount(changes, row)
             fs == {f \in DOMAIN changes : b = Null \/ changes[f] # budgets[b][f]}
             state == [at |-> "budgeted", budget |-> b, checked |-> a, late |-> FALSE,
                       changes |-> Restrict(changes, fs)]
  <2>3. /\ b = Null => DOMAIN changes = DOMAIN BudgetFields
        /\ a # Null => a \in Visible(u)
        /\ Proceed(r, state)
    BY <2>2
  <2>4. a \in Accounts \cup {Null}
    BY <1>0, <2>3 DEF Visible, VisibleAccounts, Rows, Restrict, There
  <2>5. b \in Budgets \cup {Null}
    BY <1>0 DEF VisibleBudgets, There
  <2>6. Restrict(changes, fs) \in BudgetChanges
    BY RestrictedChanges
  <2>7. b = Null => DOMAIN Restrict(changes, fs) = DOMAIN BudgetFields
    BY <2>3 DEF Restrict
  <2> HIDE DEF a, fs
  <2>8. state \in [at : {"budgeted"}, budget : Budgets \cup {Null},
            changes : BudgetChanges, checked : Accounts \cup {Null}, late : BOOLEAN]
    BY <2>4, <2>5, <2>6
  <2>9. state \in RequestState
    BY <2>8 DEF RequestState
  <2>10. /\ state.budget = Null => DOMAIN state.changes = DOMAIN BudgetFields
         /\ state.at = "budgeted"
    BY <2>7
  <2> HIDE DEF state
  <2> QED
    BY <2>3, <2>9, <2>10, ProceedType
<1>2. CASE WriteBudget(r)
  <2> DEFINE changes == request[r].changes
  <2>1. PICK b \in Target(budgets, request[r].budget) :
          \/ Refused(r)
          \/ /\ request[r].budget # Null => b \in There(budgets)
             /\ budgets' = [budgets EXCEPT ![b] =
                    IF budgets[b] = Fresh THEN changes ELSE Changed(budgets[b], changes)]
             /\ request' = Overtake(r, {q \in Requests :
                    request[q].at = "budgeted" /\ request[q].budget = b})
             /\ raced' = IF request[r].late THEN raced \cup {b} ELSE raced
             /\ UNCHANGED <<accounts, categories, transactions, transfers, treeRaced>>
    BY <1>2 DEF WriteBudget
  <2>2. CASE Refused(r)
    BY <2>2, RefusedType
  <2>3. CASE ~Refused(r)
    <3>1. request[r] \in [at : {"budgeted"}, budget : Budgets \cup {Null},
            changes : BudgetChanges, checked : Accounts \cup {Null}, late : BOOLEAN]
      BY <1>0, <1>2, RequestShape DEF WriteBudget
    <3>2. changes \in BudgetChanges /\ request[r].at = "budgeted"
      BY <3>1
    <3>3. b \in Budgets
      BY <1>0, <2>1, <2>3 DEF Target, There
    <3>4. (IF budgets[b] = Fresh THEN changes ELSE Changed(budgets[b], changes))
            \in BudgetRow
      <4>1. CASE request[r].budget = Null
        <5>1. budgets[b] = Fresh
          BY <4>1 DEF Target
        <5>2. DOMAIN changes = DOMAIN BudgetFields
          BY <3>2, <4>1 DEF TypeInv, FullPosts
        <5> QED
          BY <3>2, <5>1, <5>2, FullChanges
      <4>2. CASE request[r].budget # Null
        <5>1. budgets[b] \in BudgetRow /\ budgets[b] # Fresh
          BY <1>0, <2>1, <2>3, <4>2 DEF There
        <5> QED
          BY <3>2, <5>1, ChangedRow
      <4> QED
        BY <4>1, <4>2
    <3>5. budgets' \in [Budgets -> BudgetRow \cup {Fresh, Gone}]
      BY <1>0, <2>1, <2>3, <3>3, <3>4
    <3>6. request' \in [Requests -> RequestState] /\ FullPosts' /\ QuotedThere'
      BY <2>1, <2>3, OvertakeType
    <3>7. raced' \subseteq Budgets
      BY <1>0, <2>1, <2>3, <3>3
    <3> QED
      BY <2>1, <2>3, <3>5, <3>6, <3>7 DEF TypeInv, TypeOK
  <2> QED
    BY <2>2, <2>3
<1>3. CASE DeleteBudget(r)
  <2>1. request' \in [Requests -> RequestState] /\ FullPosts' /\ QuotedThere'
    BY <1>3, DoneType DEF DeleteBudget
  <2>2. budgets' \in [Budgets -> BudgetRow \cup {Fresh, Gone}]
    BY <1>0, <1>3 DEF DeleteBudget
  <2> QED
    BY <1>3, <2>1, <2>2 DEF DeleteBudget, TypeInv, TypeOK
<1> QED
  BY <1>1, <1>2, <1>3

LEMMA TransferType ==
  ASSUME TypeInv, NEW r \in Requests,
         QuoteTransfer(r) \/ CreateTransfer(r) \/ DeleteTransfer(r)
  PROVE  TypeInv'
<1>0. /\ accounts \in [Accounts -> AccountRow \cup {Fresh}]
      /\ transfers \in [Transfers -> TransferRow \cup {Fresh, Gone}]
      /\ request \in [Requests -> RequestState]
  BY DEF TypeInv, TypeOK
<1>1. CASE QuoteTransfer(r)
  <2>1. PICK u \in Users : \E a, b \in Visible(u), sends \in Sends :
          Proceed(r, [at |-> "quoted", source |-> a, target |-> b, sends |-> sends,
                      rate |-> accounts[a].rate])
    BY <1>1 DEF QuoteTransfer
  <2>2. PICK a \in Visible(u), b \in Visible(u), sends \in Sends :
          Proceed(r, [at |-> "quoted", source |-> a, target |-> b, sends |-> sends,
                      rate |-> accounts[a].rate])
    BY <2>1
  <2> DEFINE state == [at |-> "quoted", source |-> a, target |-> b, sends |-> sends,
                       rate |-> accounts[a].rate]
  <2>3. /\ a \in Accounts /\ b \in Accounts
        /\ accounts[a] \in AccountRow /\ accounts[b] \in AccountRow
    BY <1>0 DEF Visible, VisibleAccounts, Rows, Restrict, There
  <2>4. /\ state \in RequestState
        /\ state.at = "quoted" /\ accounts[state.target] \in AccountRow
    BY <2>3 DEF RequestState, AccountRow
  <2> HIDE DEF state
  <2> QED
    BY <2>2, <2>4, ProceedType DEF state
<1>2. CASE CreateTransfer(r)
  <2> DEFINE rate == accounts[request[r].target].rate
             row == [source |-> request[r].source, target |-> request[r].target,
                     sent |-> (request[r].sends + 1) \div 2,
                     received |-> Derived(request[r].sends, request[r].rate, rate),
                     rates |-> <<request[r].rate, rate>>]
  <2>1. CASE Refused(r)
    BY <2>1, RefusedType
  <2>2. CASE ~Refused(r)
    <3>1. /\ row.received > 0
          /\ row.sent > 0
          /\ \E x \in Target(transfers, Null) :
               transfers' = [transfers EXCEPT ![x] = row]
          /\ request' = Done(r)
          /\ UNCHANGED <<accounts, categories, transactions, budgets, treeRaced, raced>>
      BY <1>2, <2>2 DEF CreateTransfer, TransferChecks
    <3>2. /\ request[r] \in [at : {"quoted"}, source : Accounts, target : Accounts,
                             sends : Sends, rate : Rates]
          /\ accounts[request[r].target] \in AccountRow
      BY <1>0, <1>2, RequestShape DEF CreateTransfer, TypeInv, QuotedThere
    <3>3. /\ request[r].sends \in Nat
          /\ request[r].rate \in Nat \ {0} /\ rate \in Nat \ {0}
          /\ request[r].rate \in Rates /\ rate \in Rates
      BY <3>2, BookkeepingConstants DEF AccountRow
    <3>4. Derived(request[r].sends, request[r].rate, rate) \in Int
      BY <3>3, DerivedIsWhole
    <3>5. /\ Derived(request[r].sends, request[r].rate, rate) \in Nat \ {0}
          /\ (request[r].sends + 1) \div 2 \in Nat \ {0}
      BY <3>1, <3>3, <3>4
    <3>6. row \in TransferRow
      BY <3>2, <3>3, <3>5 DEF TransferRow
    <3>7. request' \in [Requests -> RequestState] /\ FullPosts' /\ QuotedThere'
      BY <3>1, DoneType
    <3> HIDE DEF row
    <3>8. transfers' \in [Transfers -> TransferRow \cup {Fresh, Gone}]
      BY <1>0, <3>1, <3>6
    <3> QED
      BY <3>1, <3>7, <3>8 DEF TypeInv, TypeOK
  <2> QED
    BY <2>1, <2>2
<1>3. CASE DeleteTransfer(r)
  <2>1. request' \in [Requests -> RequestState] /\ FullPosts' /\ QuotedThere'
    BY <1>3, DoneType DEF DeleteTransfer
  <2>2. transfers' \in [Transfers -> TransferRow \cup {Fresh, Gone}]
    BY <1>0, <1>3 DEF DeleteTransfer
  <2> QED
    BY <1>3, <2>1, <2>2 DEF DeleteTransfer, TypeInv, TypeOK
<1> QED
  BY <1>1, <1>2, <1>3

LEMMA PostType ==
  ASSUME TypeInv, NEW r \in Requests, PostTransaction(r)
  PROVE  TypeInv'
<1>1. request' \in [Requests -> RequestState] /\ FullPosts' /\ QuotedThere'
  BY DoneType DEF PostTransaction
<1>2. transactions \in [Transactions -> Bills \cup {Fresh}]
  BY DEF TypeInv, TypeOK
<1>3. transactions' \in [Transactions -> Bills \cup {Fresh}]
  BY <1>2 DEF PostTransaction
<1> QED
  BY <1>1, <1>3 DEF PostTransaction, TypeInv, TypeOK

LEMMA TypeStep == TypeInv /\ [Next]_vars => TypeInv'
<1> SUFFICES ASSUME TypeInv, [Next]_vars PROVE TypeInv'
  OBVIOUS
<1>1. CASE Next
  BY <1>1, CategoryType, AccountType, BudgetType, TransferType, PostType DEF Next
<1>2. CASE UNCHANGED vars
  BY <1>2 DEF vars, TypeInv, TypeOK, FullPosts, QuotedThere
<1> QED
  BY <1>1, <1>2

\* The tables hold rows and the requests are in the states the model names
\* (the schemas of backend/app/*/models.py), whatever the number of users,
\* accounts, rates and requests.
THEOREM BookkeepingTypeCorrect == Spec => []TypeOK
<1>1. Init => TypeInv
  BY TypeInit
<1>2. TypeInv /\ [Next]_vars => TypeInv'
  BY TypeStep
<1>3. TypeInv => TypeOK
  BY DEF TypeInv
<1> QED
  BY <1>1, <1>2, <1>3, PTL DEF Spec

-----------------------------------------------------------------------------
(* The two levels of categories.                                           *)

\* A parent is never deleted under its child, raced or not.
ParentsThere == \A c \in There(categories) : ParentExists(categories[c])
Levels == \A c \in There(categories) :
    categories[c] # Null => MayBeParent(categories[c])
\* What a request has checked and nothing has overtaken still holds.
GroundedAt(state) ==
    state.at \in {"vetted", "cleared"} /\ ~state.late /\ state.parent # Null =>
        /\ state.parent # state.category
        /\ state.parent \in There(categories) => categories[state.parent] = Null
        /\ state.at = "cleared" /\ state.category \in There(categories) =>
              Children(state.category) = {}
TreeInv ==
    /\ ParentsThere
    /\ treeRaced \/ (Levels /\ \A r \in Requests : GroundedAt(request[r]))

LEMMA TreeInit == Init => TreeInv
  BY DEF Init, TreeInv, ParentsThere, Levels, GroundedAt, ParentExists, MayBeParent

\* Steps that leave the tree alone.
LEMMA TreeKept ==
  ASSUME TypeInv, TreeInv, UNCHANGED <<categories, treeRaced>>,
         \A q \in Requests :
            request'[q].at \in {"vetted", "cleared"} => request'[q] = request[q]
  PROVE  TreeInv'
<1>1. ParentsThere' /\ (Levels => Levels')
  BY DEF TreeInv, ParentsThere, Levels, ParentExists, MayBeParent, There
<1>2. ASSUME NEW q \in Requests, GroundedAt(request[q]) PROVE GroundedAt(request[q])'
  <2>1. CASE request'[q].at \in {"vetted", "cleared"}
    BY <1>2, <2>1 DEF GroundedAt, Children, There
  <2>2. CASE request'[q].at \notin {"vetted", "cleared"}
    BY <2>2 DEF GroundedAt
  <2> QED
    BY <2>1, <2>2
<1> QED
  BY <1>1, <1>2 DEF TreeInv

LEMMA VetTree ==
  ASSUME TypeInv, TreeInv, NEW r \in Requests, VetCategory(r)
  PROVE  TreeInv'
<1>1. PICK c \in There(categories) \cup {Null}, p \in Categories \cup {Null} :
        /\ p # Null => p # c /\ MayBeParent(p)
        /\ Proceed(r, [at |-> IF c = Null \/ p = Null THEN "cleared" ELSE "vetted",
                       category |-> c, parent |-> p, late |-> FALSE])
  BY DEF VetCategory
<1> DEFINE state == [at |-> IF c = Null \/ p = Null THEN "cleared" ELSE "vetted",
                     category |-> c, parent |-> p, late |-> FALSE]
<1>2. UNCHANGED <<categories, treeRaced>>
  BY <1>1 DEF Proceed
<1>3. Null \notin There(categories)
  BY BookkeepingConstants DEF There, TypeInv, TypeOK
<1>4. GroundedAt(state)
  BY <1>1, <1>3 DEF GroundedAt, MayBeParent
<1>5. /\ request' = [request EXCEPT ![r] = state]
      /\ request \in [Requests -> RequestState]
  BY <1>1 DEF Proceed, TypeInv, TypeOK
<1> HIDE DEF state
<1>6. ASSUME NEW q \in Requests, GroundedAt(request[q]) PROVE GroundedAt(request[q])'
  <2>1. request'[q] \in {state, request[q]}
    BY <1>5
  <2> QED
    BY <1>2, <1>4, <1>6, <2>1 DEF GroundedAt, Children, There
<1>7. ParentsThere' /\ (Levels => Levels')
  BY <1>2 DEF TreeInv, ParentsThere, Levels, ParentExists, MayBeParent, There
<1> QED
  BY <1>2, <1>6, <1>7 DEF TreeInv

LEMMA LookTree ==
  ASSUME TypeInv, TreeInv, NEW r \in Requests, LookForChildren(r)
  PROVE  TreeInv'
<1>0. request \in [Requests -> RequestState]
  BY DEF TypeInv, TypeOK
<1>1. CASE Refused(r)
  BY <1>0, <1>1, TreeKept DEF Refused, Done
<1>2. CASE ~Refused(r)
  <2>1. /\ Children(request[r].category) = {}
        /\ request[r].at = "vetted"
        /\ request' = [request EXCEPT ![r].at = "cleared"]
        /\ UNCHANGED <<categories, treeRaced>>
    BY <1>0, <1>2 DEF LookForChildren, Proceed
  <2>2. request[r] \in [at : {"vetted", "cleared"},
            category : Categories \cup {Null}, parent : Categories \cup {Null},
            late : BOOLEAN]
    BY <1>0, <2>1, RequestShape
  <2>3. ASSUME NEW q \in Requests, GroundedAt(request[q]) PROVE GroundedAt(request[q])'
    <3>1. CASE q = r
      <4>1. /\ request'[q].late = request[r].late
            /\ request'[q].category = request[r].category
            /\ request'[q].parent = request[r].parent
        BY <1>0, <2>1, <2>2, <3>1
      <4>2. Children(request[q].category)' = {}
        BY <2>1, <3>1, <4>1 DEF Children, There
      <4> QED
        BY <2>1, <2>3, <3>1, <4>1, <4>2 DEF GroundedAt, There
    <3>2. CASE q # r
      <4>1. request'[q] = request[q]
        BY <1>0, <2>1, <3>2
      <4> QED
        BY <2>1, <2>3, <4>1 DEF GroundedAt, Children, There
    <3> QED
      BY <3>1, <3>2
  <2>4. ParentsThere' /\ (Levels => Levels')
    BY <2>1 DEF TreeInv, ParentsThere, Levels, ParentExists, MayBeParent, There
  <2> QED
    BY <2>1, <2>3, <2>4 DEF TreeInv
<1> QED
  BY <1>1, <1>2

LEMMA WriteTree ==
  ASSUME TypeInv, TreeInv, NEW r \in Requests, WriteCategory(r)
  PROVE  TreeInv'
<1> DEFINE p == request[r].parent
           rs == {q \in Requests : request[q].at \in {"vetted", "cleared"}}
<1>0. /\ request \in [Requests -> RequestState]
      /\ categories \in [Categories -> Categories \cup {Null, Fresh, Gone}]
      /\ treeRaced \in BOOLEAN
  BY DEF TypeInv, TypeOK
<1>1. CASE Refused(r)
  BY <1>0, <1>1, TreeKept DEF Refused, Done
<1>2. CASE ~Refused(r)
  <2>1. PICK c \in Target(categories, request[r].category) :
          /\ request[r].category # Null => c \in There(categories)
          /\ ParentExists(p)
          /\ categories' = [categories EXCEPT ![c] = p]
          /\ request' = Overtake(r, rs)
          /\ treeRaced' = (treeRaced \/ request[r].late)
    BY <1>2 DEF WriteCategory
  <2>2. request[r] \in [at : {"vetted", "cleared"},
            category : Categories \cup {Null}, parent : Categories \cup {Null},
            late : BOOLEAN]
    BY <1>0, RequestShape DEF WriteCategory
  <2>3. c \in Categories
    BY <1>0, <2>1 DEF Target, There
  <2>4. /\ There(categories)' = There(categories) \cup {c}
        /\ categories'[c] = p
        /\ \A k \in Categories \ {c} : categories'[k] = categories[k]
    BY <1>0, <2>1, <2>2, <2>3, BookkeepingConstants DEF There
  <2>5. There(categories) \subseteq Categories
    BY <1>0 DEF There
  <2>6. ParentsThere'
    BY <2>1, <2>4, <2>5 DEF TreeInv, ParentsThere, ParentExists
  <2>7. ASSUME ~treeRaced' PROVE Levels' /\ \A q \in Requests : GroundedAt(request[q])'
    <3>1. Levels /\ GroundedAt(request[r]) /\ ~request[r].late
      BY <1>0, <2>1, <2>2, <2>7 DEF TreeInv
    <3>2. p # Null => p # c /\ MayBeParent(p)
      <4>1. CASE request[r].category = Null
        BY <2>1, <3>1, <4>1 DEF Target, GroundedAt, WriteCategory, ParentExists,
                                MayBeParent, There
      <4>2. CASE request[r].category # Null
        BY <2>1, <3>1, <4>2 DEF Target, GroundedAt, WriteCategory, ParentExists,
                                MayBeParent
      <4> QED
        BY <4>1, <4>2
    <3>3. ASSUME p # Null, NEW k \in There(categories), categories[k] = c PROVE FALSE
      <4>1. c \in There(categories)
        BY <3>3, <2>3, BookkeepingConstants DEF TreeInv, ParentsThere, ParentExists
      <4>2. request[r].category = c
        BY <2>1, <4>1 DEF Target, There
      <4> QED
        BY <3>1, <3>3, <4>1, <4>2 DEF GroundedAt, Children, WriteCategory
    <3>4. Levels'
      <4> SUFFICES ASSUME NEW k \in There(categories)', categories'[k] # Null
                   PROVE  categories'[k] \in There(categories)'
                          /\ categories'[categories'[k]] = Null
        BY DEF Levels, MayBeParent
      <4>1. CASE k = c
        BY <2>4, <2>5, <3>2, <4>1 DEF MayBeParent
      <4>2. CASE k # c
        <5>1. /\ k \in There(categories) /\ categories'[k] = categories[k]
              /\ MayBeParent(categories[k])
          BY <2>4, <2>5, <3>1, <4>2 DEF Levels
        <5>2. CASE categories[k] = c
          BY <2>4, <3>3, <5>1, <5>2
        <5>3. CASE categories[k] # c
          BY <2>4, <2>5, <5>1, <5>3 DEF MayBeParent
        <5> QED
          BY <5>2, <5>3
      <4> QED
        BY <4>1, <4>2
    <3>5. ASSUME NEW q \in Requests PROVE GroundedAt(request[q])'
      <4>1. CASE q = r
        <5>1. request'[q].at = "done"
          BY <1>0, <2>1, <4>1, OvertakeTyped
        <5> QED
          BY <5>1 DEF GroundedAt
      <4>2. CASE q # r /\ q \in rs
        <5>1. request[q] \in [at : {"vetted", "cleared"},
                  category : Categories \cup {Null}, parent : Categories \cup {Null},
                  late : BOOLEAN]
          BY <1>0, <4>2, RequestShape
        <5>2. request'[q] = [request[q] EXCEPT !.late = TRUE]
          BY <1>0, <2>1, <4>2, OvertakeTyped
        <5>3. request'[q].late
          BY <5>1, <5>2
        <5> QED
          BY <5>3 DEF GroundedAt
      <4>3. CASE q # r /\ q \notin rs
        <5>1. request'[q] = request[q]
          BY <1>0, <2>1, <4>3 DEF Overtake, Done
        <5> QED
          BY <4>3, <5>1 DEF GroundedAt
      <4> QED
        BY <4>1, <4>2, <4>3
    <3> QED
      BY <3>4, <3>5
  <2> QED
    BY <2>6, <2>7 DEF TreeInv
<1> QED
  BY <1>1, <1>2

LEMMA DeleteTree ==
  ASSUME TypeInv, TreeInv, NEW r \in Requests, DeleteCategory(r)
  PROVE  TreeInv'
<1>0. /\ request \in [Requests -> RequestState]
      /\ categories \in [Categories -> Categories \cup {Null, Fresh, Gone}]
  BY DEF TypeInv, TypeOK
<1>1. PICK c \in There(categories) :
        /\ Children(c) = {}
        /\ categories' = [categories EXCEPT ![c] = Gone]
  BY DEF DeleteCategory
<1>2. /\ There(categories)' = There(categories) \ {c}
      /\ \A k \in There(categories) \ {c} : categories'[k] = categories[k]
  BY <1>0, <1>1 DEF There
<1>3. \A k \in There(categories) : categories[k] # c
  BY <1>1 DEF Children
<1>4. ParentsThere' /\ (Levels => Levels')
  BY <1>2, <1>3 DEF TreeInv, ParentsThere, Levels, ParentExists, MayBeParent
<1>5. ASSUME NEW q \in Requests, GroundedAt(request[q]) PROVE GroundedAt(request[q])'
  <2>1. CASE q = r
    <3>1. request'[q].at = "done"
      BY <1>0, <2>1 DEF DeleteCategory, Done
    <3> QED
      BY <3>1 DEF GroundedAt
  <2>2. CASE q # r
    <3>1. request'[q] = request[q]
      BY <1>0, <2>2 DEF DeleteCategory, Done
    <3> QED
      BY <1>2, <1>5, <3>1 DEF GroundedAt, Children
  <2> QED
    BY <2>1, <2>2
<1> QED
  BY <1>4, <1>5 DEF TreeInv, DeleteCategory

\* What the other actions do to the requests about categories: nothing.
LEMMA OthersLeaveTree ==
  ASSUME TypeInv, NEW r \in Requests,
         \/ CreateAccount(r) \/ UpdateAccount(r)
         \/ CheckBudget(r) \/ WriteBudget(r) \/ DeleteBudget(r)
         \/ QuoteTransfer(r) \/ CreateTransfer(r) \/ DeleteTransfer(r)
         \/ PostTransaction(r)
  PROVE  /\ UNCHANGED <<categories, treeRaced>>
         /\ \A q \in Requests :
               request'[q].at \in {"vetted", "cleared"} => request'[q] = request[q]
<1>0. request \in [Requests -> RequestState]
  BY DEF TypeInv, TypeOK
<1>1. ASSUME request' = Done(r), NEW q \in Requests,
             request'[q].at \in {"vetted", "cleared"}
      PROVE  request'[q] = request[q]
  BY <1>0, <1>1 DEF Done
<1>2. ASSUME NEW rs \in SUBSET Requests, \A q \in rs : request[q].at = "budgeted",
             request' = Overtake(r, rs), NEW q \in Requests,
             request'[q].at \in {"vetted", "cleared"}
      PROVE  request'[q] = request[q]
  <2>1. q # r
    BY <1>0, <1>2, OvertakeTyped
  <2>2. CASE q \in rs
    <3>1. request[q] \in [at : {"budgeted"}, budget : Budgets \cup {Null},
              changes : BudgetChanges, checked : Accounts \cup {Null}, late : BOOLEAN]
      BY <1>0, <1>2, <2>2, RequestShape
    <3>2. request'[q] = [request[q] EXCEPT !.late = TRUE]
      BY <1>0, <1>2, <2>1, <2>2, OvertakeTyped
    <3> QED
      BY <1>2, <3>1, <3>2
  <2>3. CASE q \notin rs
    BY <1>0, <1>2, <2>1, <2>3 DEF Overtake, Done
  <2> QED
    BY <2>2, <2>3
<1>3. ASSUME NEW state, state.at \in {"budgeted", "quoted"}, Proceed(r, state),
             NEW q \in Requests, request'[q].at \in {"vetted", "cleared"}
      PROVE  request'[q] = request[q]
  BY <1>0, <1>3 DEF Proceed
<1>4. CASE \/ CreateAccount(r) \/ DeleteBudget(r) \/ CreateTransfer(r)
           \/ DeleteTransfer(r) \/ PostTransaction(r)
  BY <1>1, <1>4 DEF CreateAccount, DeleteBudget, CreateTransfer, DeleteTransfer,
                    PostTransaction, Refused
<1>5. CASE UpdateAccount(r)
  BY <1>2, <1>5 DEF UpdateAccount
<1>6. CASE WriteBudget(r)
  BY <1>1, <1>2, <1>6 DEF WriteBudget, Refused
<1>7. CASE CheckBudget(r)
  <2>1. \E state : state.at = "budgeted" /\ Proceed(r, state)
    BY <1>7 DEF CheckBudget
  <2> QED
    BY <1>3, <2>1 DEF Proceed
<1>8. CASE QuoteTransfer(r)
  <2>1. \E state : state.at = "quoted" /\ Proceed(r, state)
    BY <1>8 DEF QuoteTransfer
  <2> QED
    BY <1>3, <2>1 DEF Proceed
<1> QED
  BY <1>4, <1>5, <1>6, <1>7, <1>8

LEMMA TreeStep == TypeInv /\ TreeInv /\ [Next]_vars => TreeInv'
<1> SUFFICES ASSUME TypeInv, TreeInv, [Next]_vars PROVE TreeInv'
  OBVIOUS
<1>1. CASE Next
  BY <1>1, VetTree, LookTree, WriteTree, DeleteTree, OthersLeaveTree, TreeKept DEF Next
<1>2. CASE UNCHANGED vars
  BY <1>2, TreeKept DEF vars
<1> QED
  BY <1>1, <1>2

\* Two levels of categories (backend/app/categories/service.py), whatever the
\* number of categories and requests, as long as no request writes after
\* another has written since its checks.
THEOREM TwoLevels == Spec => []CalmTwoLevels
<1>1. Init => TypeInv /\ TreeInv
  BY TypeInit, TreeInit
<1>2. TypeInv /\ TreeInv /\ [Next]_vars => (TypeInv /\ TreeInv)'
  BY TypeStep, TreeStep
<1>3. TypeInv /\ TreeInv => CalmTwoLevels
  <2> SUFFICES ASSUME TypeInv, Levels PROVE CanRollUp(Rows(categories))
    BY DEF TreeInv, CalmTwoLevels
  <2>1. /\ DOMAIN Rows(categories) = There(categories)
        /\ \A c \in There(categories) : Rows(categories)[c] = categories[c]
    BY DEF Rows, Restrict
  <2> QED
    BY <2>1 DEF CanRollUp, Levels, MayBeParent
<1> QED
  BY <1>1, <1>2, <1>3, PTL DEF Spec

-----------------------------------------------------------------------------
(* What a transfer delivers.                                               *)

\* Two roundings, of which the exact product knows only the first.
LEMMA RoundedConversion ==
  ASSUME NEW h \in Nat, NEW f \in Nat \ {0}, NEW t \in Nat \ {0}
  PROVE  LET error == 2 * (Derived(h, f, t) * t - ((h + 1) \div 2) * f)
         IN  -(f + t) <= error /\ error <= f + t
<1> DEFINE q == Derived(h, f, t)
           s == (h + 1) \div 2
<1>1. q \in Int /\ s \in Int
  BY DerivedIsWhole
<1>2. 2 * (q * t) <= h * f + t /\ h * f + t < 2 * (q * t) + 2 * t
  <2>1. \A n \in Int : (2 * t) * (n \div (2 * t)) <= n
                       /\ n < (2 * t) * (n \div (2 * t)) + 2 * t
    OBVIOUS
  <2>2. h * f + t \in Int
    OBVIOUS
  <2>3. (2 * t) * q <= h * f + t /\ h * f + t < (2 * t) * q + 2 * t
    BY <2>1, <2>2 DEF Derived
  <2> HIDE DEF q
  <2>4. (2 * t) * q = 2 * (q * t)
    BY <1>1
  <2> QED
    BY <2>3, <2>4
<1>3. h <= 2 * s /\ 2 * s <= h + 1
  OBVIOUS
<1> HIDE DEF q, s
<1>4. h * f <= (2 * s) * f /\ (2 * s) * f <= (h + 1) * f
  BY <1>1, <1>3
<1>5. (2 * s) * f = 2 * (s * f) /\ (h + 1) * f = h * f + f
  BY <1>1
<1>6. h * f \in Int /\ s * f \in Int /\ q * t \in Int
  BY <1>1
<1>7. -(f + t) <= 2 * (q * t - s * f) /\ 2 * (q * t - s * f) <= f + t
  BY <1>2, <1>4, <1>5, <1>6
<1> QED
  BY <1>7 DEF q, s

LEMMA ConversionStep == TypeInv /\ TransferConversion /\ [Next]_vars => TransferConversion'
<1> SUFFICES ASSUME TypeInv, TransferConversion, [Next]_vars PROVE TransferConversion'
  OBVIOUS
<1>0. /\ accounts \in [Accounts -> AccountRow \cup {Fresh}]
      /\ transfers \in [Transfers -> TransferRow \cup {Fresh, Gone}]
      /\ request \in [Requests -> RequestState]
  BY DEF TypeInv, TypeOK
<1>1. CASE UNCHANGED transfers
  BY <1>1 DEF TransferConversion, There
<1>2. ASSUME NEW r \in Requests, CreateTransfer(r), ~Refused(r)
      PROVE  TransferConversion'
  <2> DEFINE rate == accounts[request[r].target].rate
             row == [source |-> request[r].source, target |-> request[r].target,
                     sent |-> (request[r].sends + 1) \div 2,
                     received |-> Derived(request[r].sends, request[r].rate, rate),
                     rates |-> <<request[r].rate, rate>>]
             OK(x) == LET error == 2 * (x.received * x.rates[2] - x.sent * x.rates[1])
                          slack == x.rates[1] + x.rates[2]
                      IN  -slack <= error /\ error <= slack
  <2>1. PICK x \in Target(transfers, Null) : transfers' = [transfers EXCEPT ![x] = row]
    BY <1>2 DEF CreateTransfer
  <2>2. /\ request[r].sends \in Nat
        /\ request[r].rate \in Nat \ {0} /\ rate \in Nat \ {0}
    <3>1. /\ request[r] \in [at : {"quoted"}, source : Accounts, target : Accounts,
                             sends : Sends, rate : Rates]
          /\ accounts[request[r].target] \in AccountRow
      BY <1>0, <1>2, RequestShape DEF CreateTransfer, TypeInv, QuotedThere
    <3> QED
      BY <3>1, BookkeepingConstants DEF AccountRow
  <2>3. OK(row)
    BY <2>2, RoundedConversion
  <2> HIDE DEF row
  <2>4. ASSUME NEW y \in There(transfers)' PROVE OK(transfers'[y])
    <3>1. CASE y = x
      BY <1>0, <2>1, <2>3, <3>1 DEF Target, There
    <3>2. CASE y # x
      <4>1. y \in There(transfers) /\ transfers'[y] = transfers[y]
        BY <1>0, <2>1, <3>2 DEF There
      <4> QED
        BY <4>1 DEF TransferConversion
    <3> QED
      BY <3>1, <3>2
  <2> QED
    BY <2>4 DEF TransferConversion
<1>3. ASSUME NEW r \in Requests, DeleteTransfer(r)
      PROVE  TransferConversion'
  <2>1. ASSUME NEW y \in There(transfers)'
        PROVE  y \in There(transfers) /\ transfers'[y] = transfers[y]
    BY <1>0, <1>3, <2>1 DEF DeleteTransfer, There
  <2> QED
    BY <2>1 DEF TransferConversion
<1>4. ASSUME NEW r \in Requests,
             \/ VetCategory(r) \/ LookForChildren(r) \/ WriteCategory(r)
             \/ DeleteCategory(r) \/ CreateAccount(r) \/ UpdateAccount(r)
      PROVE  UNCHANGED transfers
  BY <1>4 DEF Proceed, Refused, VetCategory, LookForChildren, WriteCategory,
              DeleteCategory, CreateAccount, UpdateAccount
<1>5. ASSUME NEW r \in Requests,
             \/ CheckBudget(r) \/ WriteBudget(r) \/ DeleteBudget(r)
             \/ QuoteTransfer(r) \/ PostTransaction(r) \/ Refused(r)
      PROVE  UNCHANGED transfers
  BY <1>5 DEF Proceed, Refused, CheckBudget, WriteBudget, DeleteBudget,
              QuoteTransfer, PostTransaction
<1>6. CASE UNCHANGED vars
  BY <1>1, <1>6 DEF vars
<1>7. CASE Next
  BY <1>1, <1>2, <1>3, <1>4, <1>5, <1>7 DEF Next
<1> QED
  BY <1>6, <1>7

\* A transfer delivers what was sent at the rates that were read, to half a
\* cent on either side (backend/app/transfers/service.py), for all rates and
\* amounts, whatever other requests write between the reads.
THEOREM FairConversion == Spec => []TransferConversion
<1>1. Init => TypeInv /\ TransferConversion
  BY TypeInit DEF Init, TransferConversion, There
<1>2. TypeInv /\ TransferConversion /\ [Next]_vars => (TypeInv /\ TransferConversion)'
  BY TypeStep, ConversionStep
<1> QED
  BY <1>1, <1>2, PTL DEF Spec

-----------------------------------------------------------------------------
(* The currency of pinned budgets.                                         *)

\* The row a budget request is about to write.
Outcome(state) ==
    IF state.budget = Null THEN state.changes
    ELSE Changed(budgets[state.budget], state.changes)

\* What its checks have settled: the account is there and, until overtaken,
\* either in the currency of the row to be or as in the row there is.
SettledAt(state) ==
    state.at = "budgeted" =>
        /\ state.checked \in There(accounts) \cup {Null}
        /\ "account" \in DOMAIN state.changes =>
              state.changes["account"] \in There(accounts) \cup {Null}
        /\ /\ ~state.late
           /\ state.budget # Null => state.budget \in There(budgets)
           /\ Outcome(state).account # Null
           => \/ /\ state.checked = Outcome(state).account
                 /\ accounts[state.checked].currency = Outcome(state).currency
              \/ /\ state.budget # Null
                 /\ Outcome(state).account = budgets[state.budget].account
                 /\ Outcome(state).currency = budgets[state.budget].currency

Pinned == \A b \in There(budgets) : budgets[b].account \in There(accounts) \cup {Null}
BudgetInv ==
    /\ Pinned
    /\ BudgetCurrencyHolds
    /\ \A r \in Requests : SettledAt(request[r])

LEMMA BudgetInit == Init => BudgetInv
  BY DEF Init, BudgetInv, Pinned, BudgetCurrencyHolds, SettledAt

\* A request whose account kept its currency and whose budget was not written.
LEMMA SettledKept ==
  ASSUME NEW q \in Requests, SettledAt(request[q]), request'[q] = request[q],
         There(accounts) \subseteq There(accounts)',
         \A a \in There(accounts) :
            a = request[q].checked => accounts'[a].currency = accounts[a].currency,
         request[q].at = "budgeted" /\ request[q].budget \in There(budgets)' =>
            request[q].budget \in There(budgets)
            /\ budgets'[request[q].budget] = budgets[request[q].budget],
         request[q].at = "budgeted" => request[q].budget \in Budgets \cup {Null}
  PROVE  SettledAt(request[q])'
<1> SUFFICES ASSUME request[q].at = "budgeted" PROVE SettledAt(request[q])'
  BY DEF SettledAt
<1>1. /\ request'[q].checked \in There(accounts)' \cup {Null}
      /\ "account" \in DOMAIN request'[q].changes =>
            request'[q].changes["account"] \in There(accounts)' \cup {Null}
  BY DEF SettledAt
<1>2. ASSUME ~request'[q].late,
             request'[q].budget # Null => request'[q].budget \in There(budgets)',
             Outcome(request[q])'.account # Null
      PROVE  \/ /\ request[q].checked = Outcome(request[q])'.account
                /\ accounts'[request[q].checked].currency = Outcome(request[q])'.currency
             \/ /\ request[q].budget # Null
                /\ Outcome(request[q])'.account = budgets'[request[q].budget].account
                /\ Outcome(request[q])'.currency = budgets'[request[q].budget].currency
  <2>1. /\ Outcome(request[q])' = Outcome(request[q])
        /\ request[q].budget # Null =>
              request[q].budget \in There(budgets)
              /\ budgets'[request[q].budget] = budgets[request[q].budget]
    BY <1>2 DEF Outcome
  <2> QED
    BY <1>2, <2>1 DEF SettledAt
<1> QED
  BY <1>1, <1>2 DEF SettledAt

LEMMA SettledLate ==
  ASSUME TypeInv, NEW q \in Requests, SettledAt(request[q]),
         request[q].at = "budgeted",
         request'[q] = [request[q] EXCEPT !.late = TRUE],
         There(accounts) \subseteq There(accounts)'
  PROVE  SettledAt(request[q])'
<1>1. request[q] \in [at : {"budgeted"}, budget : Budgets \cup {Null},
          changes : BudgetChanges, checked : Accounts \cup {Null}, late : BOOLEAN]
  BY RequestShape DEF TypeInv, TypeOK
<1>2. /\ request'[q].late = TRUE
      /\ request'[q].checked = request[q].checked
      /\ request'[q].changes = request[q].changes
  BY <1>1
<1> QED
  BY <1>2 DEF SettledAt

LEMMA SettledDone ==
  ASSUME TypeInv, NEW r \in Requests, request' = Done(r), NEW q \in Requests,
         SettledAt(request[q]),
         There(accounts) \subseteq There(accounts)',
         \A a \in There(accounts) : accounts'[a].currency = accounts[a].currency,
         \A b \in There(budgets)' : b \in There(budgets) /\ budgets'[b] = budgets[b]
  PROVE  SettledAt(request[q])'
<1>0. request \in [Requests -> RequestState]
  BY DEF TypeInv, TypeOK
<1>1. CASE q = r
  <2>1. request'[q].at = "done"
    BY <1>0, <1>1 DEF Done
  <2> QED
    BY <2>1 DEF SettledAt
<1>2. CASE q # r
  <2>1. request'[q] = request[q]
    BY <1>0, <1>2 DEF Done
  <2>2. request[q].at = "budgeted" => request[q].budget \in Budgets \cup {Null}
    BY <1>0, RequestShape
  <2> QED
    BY <2>1, <2>2, SettledKept
<1> QED
  BY <1>1, <1>2

LEMMA RowsKept ==
  ASSUME TypeInv, BudgetInv,
         There(accounts) \subseteq There(accounts)',
         \A a \in There(accounts) : accounts'[a].currency = accounts[a].currency,
         \A b \in There(budgets)' : b \in There(budgets) /\ budgets'[b] = budgets[b],
         raced' = raced
  PROVE  Pinned' /\ BudgetCurrencyHolds'
  BY DEF BudgetInv, Pinned, BudgetCurrencyHolds, Consistent

\* The steps that leave accounts and budgets alone.
LEMMA BudgetKept ==
  ASSUME TypeInv, BudgetInv, UNCHANGED <<accounts, budgets, raced>>,
         \A q \in Requests :
            request'[q].at = "budgeted" => request'[q] = request[q]
  PROVE  BudgetInv'
<1>1. /\ There(accounts)' = There(accounts) /\ There(budgets)' = There(budgets)
      /\ accounts' = accounts /\ budgets' = budgets
  BY DEF There
<1>2. ASSUME NEW q \in Requests PROVE SettledAt(request[q])'
  <2>1. CASE request'[q].at # "budgeted"
    BY <2>1 DEF SettledAt
  <2>2. CASE request'[q].at = "budgeted"
    <3>1. request'[q] = request[q] /\ SettledAt(request[q])
      BY <2>2 DEF BudgetInv
    <3>2. request[q].at = "budgeted" => request[q].budget \in Budgets \cup {Null}
      BY RequestShape DEF TypeInv, TypeOK
    <3> QED
      BY <1>1, <3>1, <3>2, SettledKept
  <2> QED
    BY <2>1, <2>2
<1> QED
  BY <1>1, <1>2, RowsKept DEF BudgetInv

LEMMA OthersLeaveBudgets ==
  ASSUME TypeInv, BudgetInv, NEW r \in Requests,
         \/ VetCategory(r) \/ LookForChildren(r) \/ WriteCategory(r)
         \/ DeleteCategory(r)
         \/ QuoteTransfer(r) \/ CreateTransfer(r) \/ DeleteTransfer(r)
         \/ PostTransaction(r) \/ Refused(r)
  PROVE  BudgetInv'
<1>0. request \in [Requests -> RequestState]
  BY DEF TypeInv, TypeOK
<1>1. CASE /\ request' = Done(r)
           /\ UNCHANGED <<accounts, budgets, raced>>
  BY <1>0, <1>1, BudgetKept DEF Done
<1>2. ASSUME NEW state, state.at # "budgeted", Proceed(r, state)
      PROVE  BudgetInv'
  BY <1>0, <1>2, BudgetKept DEF Proceed
<1>3. CASE WriteCategory(r) /\ ~Refused(r)
  <2> DEFINE rs == {q \in Requests : request[q].at \in {"vetted", "cleared"}}
  <2>1. request' = Overtake(r, rs) /\ UNCHANGED <<accounts, budgets, raced>>
    BY <1>3 DEF WriteCategory
  <2>2. ASSUME NEW q \in Requests, request'[q].at = "budgeted"
        PROVE  request'[q] = request[q]
    <3>1. q # r
      BY <1>0, <2>1, <2>2, OvertakeTyped
    <3>2. CASE q \in rs
      <4>1. request[q] \in [at : {"vetted", "cleared"},
              category : Categories \cup {Null}, parent : Categories \cup {Null},
              late : BOOLEAN]
        BY <1>0, <3>2, RequestShape
      <4>2. request'[q] = [request[q] EXCEPT !.late = TRUE]
        BY <1>0, <2>1, <3>1, <3>2, OvertakeTyped
      <4> QED
        BY <2>2, <4>1, <4>2
    <3>3. CASE q \notin rs
      BY <1>0, <2>1, <3>1, <3>3 DEF Overtake, Done
    <3> QED
      BY <3>2, <3>3
  <2> QED
    BY <2>1, <2>2, BudgetKept
<1>4. CASE VetCategory(r)
  <2>1. \E state : state.at # "budgeted" /\ Proceed(r, state)
    BY <1>4 DEF VetCategory
  <2> QED
    BY <1>2, <2>1
<1>5. CASE LookForChildren(r)
  <2>1. CASE ~Refused(r)
    <3>1. Proceed(r, [request[r] EXCEPT !.at = "cleared"]) /\ request[r].at = "vetted"
      BY <1>5, <2>1 DEF LookForChildren
    <3>2. [request[r] EXCEPT !.at = "cleared"].at # "budgeted"
      BY <1>0, <3>1, RequestShape
    <3> QED
      BY <1>2, <3>1, <3>2
  <2> QED
    BY <1>1, <2>1 DEF Refused
<1>6. CASE QuoteTransfer(r)
  <2>1. \E state : state.at # "budgeted" /\ Proceed(r, state)
    BY <1>6 DEF QuoteTransfer
  <2> QED
    BY <1>2, <2>1
<1>7. CASE \/ DeleteCategory(r) \/ CreateTransfer(r) \/ DeleteTransfer(r)
           \/ PostTransaction(r) \/ Refused(r)
  BY <1>1, <1>7 DEF DeleteCategory, CreateTransfer, DeleteTransfer, PostTransaction,
                    Refused
<1> QED
  BY <1>3, <1>4, <1>5, <1>6, <1>7

LEMMA AccountsBudgetInv ==
  ASSUME TypeInv, BudgetInv, NEW r \in Requests, CreateAccount(r) \/ UpdateAccount(r)
  PROVE  BudgetInv'
<1>0. /\ accounts \in [Accounts -> AccountRow \cup {Fresh}]
      /\ request \in [Requests -> RequestState]
      /\ \A q \in Requests : SettledAt(request[q])
  BY DEF TypeInv, TypeOK, BudgetInv
<1>1. CASE CreateAccount(r)
  <2>1. PICK a \in Accounts, currency \in Currencies, rate \in Rates :
          /\ accounts[a] = Fresh
          /\ accounts' = [accounts EXCEPT ![a] =
                 [currency |-> currency, rate |-> rate, owner |-> Owner[a]]]
    BY <1>1 DEF CreateAccount
  <2>2. [currency |-> currency, rate |-> rate, owner |-> Owner[a]] \in AccountRow
    BY BookkeepingConstants DEF AccountRow
  <2>3. /\ There(accounts) \subseteq There(accounts)'
        /\ \A k \in There(accounts) : accounts'[k] = accounts[k]
    BY <1>0, <2>1, <2>2, RowsAreThere DEF There
  <2>4. /\ request' = Done(r) /\ raced' = raced
        /\ There(budgets)' = There(budgets) /\ budgets' = budgets
    BY <1>1 DEF CreateAccount, There
  <2>5. \A q \in Requests : SettledAt(request[q])'
    BY <1>0, <2>3, <2>4, SettledDone
  <2> QED
    BY <2>3, <2>4, <2>5, RowsKept DEF BudgetInv
<1>2. CASE UpdateAccount(r)
  <2>0. PICK u \in Users : \E a \in Visible(u), currency \in Currencies, rate \in Rates :
          /\ accounts' = [accounts EXCEPT ![a].currency = currency, ![a].rate = rate]
          /\ request' = Overtake(r, {q \in Requests :
                 currency # accounts[a].currency
                    /\ request[q].at = "budgeted" /\ request[q].checked = a})
          /\ raced' = raced \cup {b \in There(budgets) :
                 currency # accounts[a].currency /\ budgets[b].account = a}
    BY <1>2 DEF UpdateAccount
  <2>1. PICK a \in Visible(u), currency \in Currencies, rate \in Rates :
          /\ accounts' = [accounts EXCEPT ![a].currency = currency, ![a].rate = rate]
          /\ request' = Overtake(r, {q \in Requests :
                 currency # accounts[a].currency
                    /\ request[q].at = "budgeted" /\ request[q].checked = a})
          /\ raced' = raced \cup {b \in There(budgets) :
                 currency # accounts[a].currency /\ budgets[b].account = a}
    BY <2>0
  <2> DEFINE rs == {q \in Requests : currency # accounts[a].currency
                    /\ request[q].at = "budgeted" /\ request[q].checked = a}
  <2>2. a \in Accounts /\ accounts[a] \in AccountRow
    BY <1>0 DEF Visible, VisibleAccounts, Rows, Restrict, There
  <2>3. /\ accounts'[a] \in AccountRow /\ accounts'[a].currency = currency
        /\ \A k \in Accounts \ {a} : accounts'[k] = accounts[k]
    BY <1>0, <2>1, <2>2 DEF AccountRow
  <2>4. There(accounts)' = There(accounts) /\ There(accounts) \subseteq Accounts
    BY <1>0, <2>1, <2>2, <2>3, RowsAreThere DEF There
  <2>5. There(budgets)' = There(budgets) /\ budgets' = budgets
    BY <1>2 DEF UpdateAccount, There
  <2>6. Pinned'
    BY <2>4, <2>5 DEF BudgetInv, Pinned
  <2>7. BudgetCurrencyHolds'
    <3> SUFFICES ASSUME NEW b \in There(budgets), b \notin raced',
                        budgets[b].account # Null
                 PROVE  accounts'[budgets[b].account].currency = budgets[b].currency
      BY <2>5 DEF BudgetCurrencyHolds, Consistent
    <3>1. /\ budgets[b].account \in There(accounts)
          /\ accounts[budgets[b].account].currency = budgets[b].currency
      BY <2>1 DEF BudgetInv, Pinned, BudgetCurrencyHolds, Consistent
    <3>2. budgets[b].account = a => currency = accounts[a].currency
      BY <2>1
    <3> QED
      BY <2>3, <2>4, <3>1, <3>2
  <2>8. ASSUME NEW q \in Requests PROVE SettledAt(request[q])'
    <3>1. CASE q = r
      <4>1. request'[q].at = "done"
        BY <1>0, <2>1, <3>1, OvertakeTyped
      <4> QED
        BY <4>1 DEF SettledAt
    <3>2. CASE q # r /\ q \in rs
      <4>1. request'[q] = [request[q] EXCEPT !.late = TRUE]
        BY <1>0, <2>1, <3>2, OvertakeTyped
      <4> QED
        BY <1>0, <2>4, <3>2, <4>1, SettledLate
    <3>3. CASE q # r /\ q \notin rs
      <4>1. request'[q] = request[q]
        BY <1>0, <2>1, <3>3 DEF Overtake, Done
      <4>2. CASE request[q].at = "budgeted"
        <5>1. \A k \in There(accounts) :
                k = request[q].checked => accounts'[k].currency = accounts[k].currency
          BY <2>3, <2>4, <3>3, <4>2
        <5>2. request[q].budget \in Budgets \cup {Null}
          BY <1>0, <4>2, RequestShape
        <5> QED
          BY <1>0, <2>4, <2>5, <4>1, <5>1, <5>2, SettledKept
      <4>3. CASE request[q].at # "budgeted"
        BY <4>1, <4>3 DEF SettledAt
      <4> QED
        BY <4>2, <4>3
    <3> QED
      BY <3>1, <3>2, <3>3
  <2> QED
    BY <2>6, <2>7, <2>8 DEF BudgetInv
<1> QED
  BY <1>1, <1>2

\* Sending again what a row already holds changes nothing.
LEMMA ChangedAgain ==
  ASSUME NEW row \in BudgetRow, NEW ch \in BudgetChanges
  PROVE  Changed(row, Restrict(ch, {f \in DOMAIN ch : ch[f] # row[f]})) = Changed(row, ch)
<1> DEFINE less == Restrict(ch, {f \in DOMAIN ch : ch[f] # row[f]})
<1>1. /\ DOMAIN less = {f \in DOMAIN ch : ch[f] # row[f]}
      /\ \A f \in DOMAIN less : less[f] = ch[f]
  BY DEF Restrict
<1> HIDE DEF less
<1>2. \A f \in DOMAIN row : (IF f \in DOMAIN less THEN less[f] ELSE row[f])
                            = (IF f \in DOMAIN ch THEN ch[f] ELSE row[f])
  BY <1>1
<1>3. Changed(row, less) = Changed(row, ch)
  BY <1>2 DEF Changed
<1> QED
  BY <1>3 DEF less

LEMMA ChangedFields ==
  ASSUME NEW row \in BudgetRow, NEW ch
  PROVE  /\ Changed(row, ch).account =
              IF "account" \in DOMAIN ch THEN ch["account"] ELSE row.account
         /\ Changed(row, ch).currency =
              IF "currency" \in DOMAIN ch THEN ch["currency"] ELSE row.currency
  BY DEF Changed, BudgetRow

LEMMA CheckBudgetInv ==
  ASSUME TypeInv, BudgetInv, NEW r \in Requests, CheckBudget(r)
  PROVE  BudgetInv'
<1>0. /\ budgets \in [Budgets -> BudgetRow \cup {Fresh, Gone}]
      /\ accounts \in [Accounts -> AccountRow \cup {Fresh}]
      /\ request \in [Requests -> RequestState]
  BY DEF TypeInv, TypeOK
<1>1. PICK u \in Users :
        \E b \in VisibleBudgets(u) \cup {Null}, changes \in BudgetChanges :
          LET row == IF b = Null THEN changes ELSE Changed(budgets[b], changes)
              a == CheckedAccount(changes, row)
          IN  /\ b = Null => DOMAIN changes = DOMAIN BudgetFields
              /\ "category" \in DOMAIN changes => row.category \in There(categories)
              /\ a # Null => a \in Visible(u) /\ accounts[a].currency = row.currency
              /\ Proceed(r, [at |-> "budgeted", budget |-> b, checked |-> a,
                     late |-> FALSE,
                     changes |-> Restrict(changes,
                         {f \in DOMAIN changes : b = Null \/ changes[f] # budgets[b][f]})])
  BY DEF CheckBudget
<1>2. PICK b \in VisibleBudgets(u) \cup {Null}, changes \in BudgetChanges :
          LET row == IF b = Null THEN changes ELSE Changed(budgets[b], changes)
              a == CheckedAccount(changes, row)
          IN  /\ b = Null => DOMAIN changes = DOMAIN BudgetFields
              /\ "category" \in DOMAIN changes => row.category \in There(categories)
              /\ a # Null => a \in Visible(u) /\ accounts[a].currency = row.currency
              /\ Proceed(r, [at |-> "budgeted", budget |-> b, checked |-> a,
                     late |-> FALSE,
                     changes |-> Restrict(changes,
                         {f \in DOMAIN changes : b = Null \/ changes[f] # budgets[b][f]})])
  BY <1>1
<1> DEFINE row == IF b = Null THEN changes ELSE Changed(budgets[b], changes)
           a == CheckedAccount(changes, row)
           fs == {f \in DOMAIN changes : b = Null \/ changes[f] # budgets[b][f]}
           state == [at |-> "budgeted", budget |-> b, checked |-> a, late |-> FALSE,
                     changes |-> Restrict(changes, fs)]
<1>3. /\ b = Null => DOMAIN changes = DOMAIN BudgetFields
      /\ a # Null => a \in Visible(u) /\ accounts[a].currency = row.currency
      /\ Proceed(r, state)
  BY <1>2
<1>4. b # Null => budgets[b] \in BudgetRow
  BY <1>0 DEF VisibleBudgets, There
<1>5. a \in There(accounts) \cup {Null}
  BY <1>0, <1>3 DEF Visible, VisibleAccounts, Rows, Restrict
<1>6. Outcome(state) = row
  <2>1. CASE b = Null
    <3>1. Restrict(changes, DOMAIN changes) = changes
      BY ChangesFields DEF Restrict, BudgetChanges
    <3>2. fs = DOMAIN changes
      BY <2>1
    <3> QED
      BY <2>1, <3>1, <3>2 DEF Outcome
  <2>2. CASE b # Null
    <3>1. fs = {f \in DOMAIN changes : changes[f] # budgets[b][f]}
      BY <2>2
    <3> QED
      BY <1>4, <2>2, <3>1, ChangedAgain DEF Outcome
  <2> QED
    BY <2>1, <2>2
<1>7. "account" \in DOMAIN Restrict(changes, fs) =>
        Restrict(changes, fs)["account"] \in There(accounts) \cup {Null}
  <2> SUFFICES ASSUME "account" \in DOMAIN changes
               PROVE  changes["account"] \in There(accounts) \cup {Null}
    BY DEF Restrict
  <2>1. row.account = changes["account"]
    BY <1>4, ChangedFields
  <2>2. a = row.account
    BY DEF CheckedAccount
  <2> QED
    BY <1>5, <2>1, <2>2
<1>8. ASSUME row.account # Null
      PROVE  \/ a = row.account /\ accounts[a].currency = row.currency
             \/ /\ b # Null
                /\ row.account = budgets[b].account
                /\ row.currency = budgets[b].currency
  <2>1. CASE {"account", "currency"} \cap DOMAIN changes # {}
    BY <1>3, <1>8, <2>1 DEF CheckedAccount
  <2>2. CASE {"account", "currency"} \cap DOMAIN changes = {}
    <3>1. b # Null
      BY <1>3, <2>2 DEF BudgetFields
    <3> QED
      BY <1>4, <2>2, <3>1, ChangedFields
  <2> QED
    BY <2>1, <2>2
<1>9. SettledAt(state)
  <2> HIDE DEF row, a, fs
  <2> QED
    BY <1>5, <1>6, <1>7, <1>8 DEF SettledAt
<1>10. /\ request' = [request EXCEPT ![r] = state]
       /\ accounts' = accounts /\ budgets' = budgets /\ raced' = raced
  BY <1>3 DEF Proceed
<1> HIDE DEF state
<1>11. ASSUME NEW q \in Requests PROVE SettledAt(request[q])'
  <2>1. request'[q] \in {state, request[q]}
    BY <1>0, <1>10
  <2>2. SettledAt(request[q])
    BY DEF BudgetInv
  <2> QED
    BY <1>9, <1>10, <2>1, <2>2 DEF SettledAt, Outcome, There
<1> QED
  BY <1>10, <1>11, RowsKept DEF BudgetInv, There

LEMMA WriteBudgetInv ==
  ASSUME TypeInv, BudgetInv, NEW r \in Requests, WriteBudget(r), ~Refused(r)
  PROVE  BudgetInv'
<1> DEFINE changes == request[r].changes
<1>0. /\ budgets \in [Budgets -> BudgetRow \cup {Fresh, Gone}]
      /\ request \in [Requests -> RequestState]
      /\ \A q \in Requests : SettledAt(request[q])
  BY DEF TypeInv, TypeOK, BudgetInv
<1>1. PICK b \in Target(budgets, request[r].budget) :
        /\ request[r].budget # Null => b \in There(budgets)
        /\ budgets' = [budgets EXCEPT ![b] =
               IF budgets[b] = Fresh THEN changes ELSE Changed(budgets[b], changes)]
        /\ request' = Overtake(r, {q \in Requests :
               request[q].at = "budgeted" /\ request[q].budget = b})
        /\ raced' = IF request[r].late THEN raced \cup {b} ELSE raced
        /\ UNCHANGED <<accounts, categories, transactions, transfers, treeRaced>>
  BY DEF WriteBudget
<1> DEFINE rs == {q \in Requests : request[q].at = "budgeted" /\ request[q].budget = b}
           row == Outcome(request[r])
<1>2. request[r] \in [at : {"budgeted"}, budget : Budgets \cup {Null},
        changes : BudgetChanges, checked : Accounts \cup {Null}, late : BOOLEAN]
  BY <1>0, RequestShape DEF WriteBudget
<1>3. /\ changes \in BudgetChanges /\ request[r].at = "budgeted"
      /\ request[r].late \in BOOLEAN
  BY <1>2
<1>4. b \in Budgets
  BY <1>0, <1>1 DEF Target, There
<1>5. /\ request[r].budget = Null =>
            /\ budgets[b] = Fresh
            /\ row = changes
            /\ DOMAIN changes = DOMAIN BudgetFields
      /\ request[r].budget # Null =>
            /\ b = request[r].budget /\ b \in There(budgets)
            /\ budgets[b] \in BudgetRow /\ budgets[b] # Fresh
            /\ row = Changed(budgets[b], changes)
  BY <1>0, <1>1, <1>3 DEF Target, There, Outcome, TypeInv, FullPosts
<1>6. row \in BudgetRow
  BY <1>3, <1>5, FullChanges, ChangedRow
<1>7. budgets' = [budgets EXCEPT ![b] = row]
  BY <1>1, <1>5
<1> HIDE DEF row
<1>8. /\ budgets'[b] = row
      /\ \A k \in Budgets \ {b} : budgets'[k] = budgets[k]
      /\ There(budgets)' = There(budgets) \cup {b}
      /\ There(budgets) \subseteq Budgets
  BY <1>0, <1>4, <1>6, <1>7, RowsAreThere DEF There
<1>9. There(accounts)' = There(accounts) /\ accounts' = accounts
  BY <1>1 DEF There
<1>10. row.account \in There(accounts) \cup {Null}
  <2>1. "account" \in DOMAIN changes =>
          changes["account"] \in There(accounts) \cup {Null}
    BY <1>0, <1>3 DEF SettledAt
  <2>2. CASE request[r].budget = Null
    BY <1>5, <2>1, <2>2 DEF BudgetFields
  <2>3. CASE request[r].budget # Null
    BY <1>5, <2>1, <2>3, ChangedFields DEF BudgetInv, Pinned
  <2> QED
    BY <2>2, <2>3
<1>11. Pinned'
  BY <1>8, <1>9, <1>10 DEF BudgetInv, Pinned
<1>12. BudgetCurrencyHolds'
  <2> SUFFICES ASSUME NEW k \in There(budgets)', k \notin raced',
                      budgets'[k].account # Null
               PROVE  accounts[budgets'[k].account].currency = budgets'[k].currency
    BY <1>9 DEF BudgetCurrencyHolds, Consistent
  <2>1. k \notin raced
    BY <1>1
  <2>2. CASE k # b
    BY <1>8, <2>1, <2>2 DEF BudgetInv, BudgetCurrencyHolds, Consistent
  <2>3. CASE k = b
    <3>1. ~request[r].late
      BY <1>1, <1>3, <2>3
    <3>2. \/ /\ request[r].checked = row.account
             /\ accounts[request[r].checked].currency = row.currency
          \/ /\ request[r].budget # Null
             /\ row.account = budgets[request[r].budget].account
             /\ row.currency = budgets[request[r].budget].currency
      BY <1>0, <1>3, <1>5, <1>8, <2>3, <3>1 DEF SettledAt, row
    <3>3. CASE request[r].budget # Null /\ row.account = budgets[b].account
               /\ row.currency = budgets[b].currency
      BY <1>5, <1>8, <2>1, <2>3, <3>3 DEF BudgetInv, BudgetCurrencyHolds, Consistent
    <3> QED
      BY <1>5, <1>8, <2>3, <3>2, <3>3
  <2> QED
    BY <2>2, <2>3
<1>13. ASSUME NEW q \in Requests PROVE SettledAt(request[q])'
  <2>1. CASE q = r
    <3>1. request'[q].at = "done"
      BY <1>0, <1>1, <2>1, OvertakeTyped
    <3> QED
      BY <3>1 DEF SettledAt
  <2>2. CASE q # r /\ q \in rs
    <3>1. request'[q] = [request[q] EXCEPT !.late = TRUE]
      BY <1>0, <1>1, <2>2, OvertakeTyped
    <3> QED
      BY <1>0, <1>9, <2>2, <3>1, SettledLate
  <2>3. CASE q # r /\ q \notin rs
    <3>1. request'[q] = request[q]
      BY <1>0, <1>1, <2>3 DEF Overtake, Done
    <3>2. CASE request[q].at = "budgeted"
      <4>1. request[q].budget \in Budgets \cup {Null} /\ request[q].budget # b
        BY <1>0, <2>3, <3>2, RequestShape
      <4>2. request[q].budget \in There(budgets)' =>
              request[q].budget \in There(budgets)
              /\ budgets'[request[q].budget] = budgets[request[q].budget]
        BY <1>8, <4>1
      <4> QED
        BY <1>0, <1>9, <3>1, <4>1, <4>2, SettledKept
    <3>3. CASE request[q].at # "budgeted"
      BY <3>1, <3>3 DEF SettledAt
    <3> QED
      BY <3>2, <3>3
  <2> QED
    BY <2>1, <2>2, <2>3
<1> QED
  BY <1>11, <1>12, <1>13 DEF BudgetInv

LEMMA BudgetStep == TypeInv /\ BudgetInv /\ [Next]_vars => BudgetInv'
<1> SUFFICES ASSUME TypeInv, BudgetInv, [Next]_vars PROVE BudgetInv'
  OBVIOUS
<1>1. ASSUME NEW r \in Requests, DeleteBudget(r) PROVE BudgetInv'
  <2>1. PICK b \in Budgets : budgets' = [budgets EXCEPT ![b] = Gone]
    BY <1>1 DEF DeleteBudget, VisibleBudgets, There, TypeInv, TypeOK
  <2>2. \A k \in There(budgets)' : k \in There(budgets) /\ budgets'[k] = budgets[k]
    BY <2>1 DEF There, TypeInv, TypeOK
  <2>3. /\ accounts' = accounts /\ There(accounts)' = There(accounts)
        /\ raced' = raced /\ request' = Done(r)
    BY <1>1 DEF DeleteBudget, There
  <2>4. \A q \in Requests : SettledAt(request[q])'
    BY <2>2, <2>3, SettledDone DEF BudgetInv
  <2> QED
    BY <2>2, <2>3, <2>4, RowsKept DEF BudgetInv
<1>2. CASE UNCHANGED vars
  BY <1>2, BudgetKept DEF vars
<1>3. CASE Next
  BY <1>1, <1>3, OthersLeaveBudgets, AccountsBudgetInv, CheckBudgetInv, WriteBudgetInv
  DEF Next
<1> QED
  BY <1>2, <1>3

\* A budget pinned to an account is in the currency of the account
\* (backend/app/budgets/service.py), for any users, accounts and requests, but
\* for the budgets whose account changed currency or whose PATCHes crossed.
THEOREM PinnedCurrency == Spec => []BudgetCurrencyHolds
<1>1. Init => TypeInv /\ BudgetInv
  BY TypeInit, BudgetInit
<1>2. TypeInv /\ BudgetInv /\ [Next]_vars => (TypeInv /\ BudgetInv)'
  BY TypeStep, BudgetStep
<1>3. BudgetInv => BudgetCurrencyHolds
  BY DEF BudgetInv
<1> QED
  BY <1>1, <1>2, <1>3, PTL DEF Spec

-----------------------------------------------------------------------------
(* Dates and the buckets of a trend.                                        *)

LEMMA DateParts ==
  ASSUME NEW d \in CalendarDates
  PROVE  /\ d.year \in Int /\ d.month \in Months /\ d.month \in Int /\ d.day \in Int
         /\ d.day \in 1..MonthLength(d.year, d.month)
         /\ MonthLength(d.year, d.month) \in 28..31
         /\ d = [year |-> d.year, month |-> d.month, day |-> d.day]
         /\ DaysBeforeYear(d.year) \in Int /\ DaysBeforeMonth(d.year, d.month) \in Int
         /\ Ordinal(d) = DaysBeforeYear(d.year) + DaysBeforeMonth(d.year, d.month) + d.day
         /\ Ordinal(d) \in Int
<1>1. d.year \in Int /\ d.month \in Months /\ d.day \in Int
      /\ d.day \in 1..MonthLength(d.year, d.month)
  BY DEF CalendarDates, IsDate
<1>2. d = [year |-> d.year, month |-> d.month, day |-> d.day]
  BY DEF CalendarDates
<1>3. Months \subseteq Int
  BY DEF Months
<1> QED
  BY <1>1, <1>2, <1>3, MonthFollows, YearFollows, OrdinalParts

\* What it takes to be a date.
LEMMA ADate ==
  ASSUME NEW y \in Int, NEW m \in Months, NEW k \in 1..MonthLength(y, m)
  PROVE  [year |-> y, month |-> m, day |-> k] \in CalendarDates
<1>1. k \in 1..31
  BY MonthFollows
<1> QED
  BY <1>1 DEF CalendarDates, IsDate

\* A few days more or less.
LEMMA PlusDaysAdds ==
  ASSUME NEW d \in CalendarDates, NEW n \in -7..7
  PROVE  /\ PlusDays(d, n) \in CalendarDates
         /\ Ordinal(PlusDays(d, n)) = Ordinal(d) + n
<1> DEFINE day == d.day + n
           length == MonthLength(d.year, d.month)
<1>0. day \in Int /\ length \in 28..31 /\ d.day \in 1..length /\ day = d.day + n /\ day >= -6 /\ day <= length + 7
  BY DateParts
<1>a. PICK yy, mm, dd : d = [year |-> yy, month |-> mm, day |-> dd]
  BY DateParts
<1>b. d.year = yy /\ d.month = mm /\ d.day = dd
  BY <1>a
<1>1. CASE day < 1
  <2> DEFINE y == IF d.month = 1 THEN d.year - 1 ELSE d.year
             m == IF d.month = 1 THEN 12 ELSE d.month - 1
             k == day + MonthLength(y, m)
             before == [year |-> y, month |-> m, day |-> k]
  <2>1. y \in Int /\ m \in Months
    BY DateParts DEF Months
  <2>2. PlusDays(d, n) = before
    <3>1. d.month = 1 => PlusDays(d, n) =
             [year |-> d.year - 1, month |-> 12, day |-> day + MonthLength(d.year - 1, 12)]
      BY <1>1, <1>a, <1>b DEF PlusDays
    <3>2. d.month # 1 => PlusDays(d, n) =
             [year |-> d.year, month |-> d.month - 1,
              day |-> day + MonthLength(d.year, d.month - 1)]
      BY <1>1, <1>a, <1>b DEF PlusDays
    <3> QED
      BY <3>1, <3>2
  <2>3. MonthLength(y, m) \in 28..31
    BY <2>1, MonthFollows
  <2> HIDE DEF y, m
  <2>4. k \in 1..MonthLength(y, m) /\ k \in Int
    BY <1>0, <1>1, <2>3
  <2>5. before \in CalendarDates
    BY <2>1, <2>4, ADate
  <2>6. Ordinal(before) = DaysBeforeYear(y) + DaysBeforeMonth(y, m) + k
    BY <2>5, DateParts
  <2>7. DaysBeforeYear(y) + DaysBeforeMonth(y, m) + MonthLength(y, m)
          = DaysBeforeYear(d.year) + DaysBeforeMonth(d.year, d.month)
    <3>1. CASE d.month = 1
      <4>1. y \in Int /\ m = 12 /\ m \in Months /\ d.year = y + 1
        BY <2>1, <3>1, DateParts DEF y, m
      <4>2. DaysBeforeMonth(y, m) + MonthLength(y, m) = YearLength(y)
        BY <4>1, MonthFollows
      <4>3. DaysBeforeYear(d.year) = DaysBeforeYear(y) + YearLength(y)
        BY <4>1, YearFollows
      <4>4. DaysBeforeMonth(d.year, d.month) = 0
        BY <3>1, DateParts, MonthFollows
      <4>5. DaysBeforeYear(y) \in Int /\ DaysBeforeMonth(y, m) \in Int /\ MonthLength(y, m) \in Int
        BY <2>1, <2>3, YearFollows, MonthFollows
      <4> QED
        BY <4>2, <4>3, <4>4, <4>5
    <3>2. CASE d.month # 1
      <4>1. y = d.year /\ m \in Months /\ m < 12 /\ d.month = m + 1
        BY <2>1, <3>2, DateParts DEF y, m, Months
      <4>2. DaysBeforeMonth(y, m + 1) = DaysBeforeMonth(y, m) + MonthLength(y, m)
        BY <2>1, <4>1, MonthFollows
      <4>3. DaysBeforeYear(y) \in Int /\ DaysBeforeMonth(y, m) \in Int /\ MonthLength(y, m) \in Int
        BY <2>1, <2>3, YearFollows, MonthFollows
      <4> QED
        BY <4>1, <4>2, <4>3
    <3> QED
      BY <3>1, <3>2
  <2>8. /\ DaysBeforeYear(y) \in Int /\ DaysBeforeMonth(y, m) \in Int
        /\ DaysBeforeYear(d.year) \in Int /\ DaysBeforeMonth(d.year, d.month) \in Int
        /\ Ordinal(d) = DaysBeforeYear(d.year) + DaysBeforeMonth(d.year, d.month) + d.day
        /\ d.day \in Int
    BY <2>1, YearFollows, MonthFollows, DateParts
  <2>9. k = d.day + n + MonthLength(y, m)
    OBVIOUS
  <2> HIDE DEF before, k, day, length
  <2> QED
    BY <2>2, <2>3, <2>5, <2>6, <2>7, <2>8, <2>9
<1>2. CASE ~(day < 1) /\ day > length
  <2> DEFINE y == IF d.month = 12 THEN d.year + 1 ELSE d.year
             m == IF d.month = 12 THEN 1 ELSE d.month + 1
             k == day - length
             after == [year |-> y, month |-> m, day |-> k]
  <2>1. y \in Int /\ m \in Months
    BY DateParts DEF Months
  <2>2. PlusDays(d, n) = after
    <3>1. d.month = 12 => PlusDays(d, n) =
             [year |-> d.year + 1, month |-> 1, day |-> k]
      BY <1>2, <1>a, <1>b DEF PlusDays
    <3>2. d.month # 12 => PlusDays(d, n) =
             [year |-> d.year, month |-> d.month + 1, day |-> k]
      BY <1>2, <1>a, <1>b DEF PlusDays
    <3> QED
      BY <3>1, <3>2
  <2>3. MonthLength(y, m) \in 28..31
    BY <2>1, MonthFollows
  <2> HIDE DEF y, m
  <2>4. k \in 1..MonthLength(y, m) /\ k \in Int
    BY <1>0, <1>2, <2>3
  <2>5. after \in CalendarDates
    BY <2>1, <2>4, ADate
  <2>6. Ordinal(after) = DaysBeforeYear(y) + DaysBeforeMonth(y, m) + k
    BY <2>5, DateParts
  <2>7. DaysBeforeYear(d.year) + DaysBeforeMonth(d.year, d.month) + length
          = DaysBeforeYear(y) + DaysBeforeMonth(y, m)
    <3>1. CASE d.month = 12
      <4>1. d.year \in Int /\ m = 1 /\ m \in Months /\ y = d.year + 1 /\ d.month \in Months
        BY <2>1, <3>1, DateParts DEF y, m
      <4>2. DaysBeforeMonth(d.year, d.month) + length = YearLength(d.year)
        BY <3>1, <4>1, MonthFollows
      <4>3. DaysBeforeYear(y) = DaysBeforeYear(d.year) + YearLength(d.year)
        BY <4>1, YearFollows
      <4>4. DaysBeforeMonth(y, m) = 0
        BY <2>1, <4>1, MonthFollows
      <4>5. /\ DaysBeforeYear(d.year) \in Int /\ DaysBeforeMonth(d.year, d.month) \in Int
            /\ length \in Int
        BY <1>0, DateParts
      <4> QED
        BY <4>2, <4>3, <4>4, <4>5
    <3>2. CASE d.month # 12
      <4>1. y = d.year /\ d.month \in Months /\ d.month < 12 /\ m = d.month + 1 /\ d.year \in Int
        BY <2>1, <3>2, DateParts DEF y, m, Months
      <4>2. DaysBeforeMonth(d.year, d.month + 1) = DaysBeforeMonth(d.year, d.month) + length
        BY <4>1, MonthFollows
      <4>3. /\ DaysBeforeYear(d.year) \in Int /\ DaysBeforeMonth(d.year, d.month) \in Int
            /\ length \in Int
        BY <1>0, DateParts
      <4> QED
        BY <4>1, <4>2, <4>3
    <3> QED
      BY <3>1, <3>2
  <2>8. /\ DaysBeforeYear(y) \in Int /\ DaysBeforeMonth(y, m) \in Int
        /\ DaysBeforeYear(d.year) \in Int /\ DaysBeforeMonth(d.year, d.month) \in Int
        /\ Ordinal(d) = DaysBeforeYear(d.year) + DaysBeforeMonth(d.year, d.month) + d.day
        /\ d.day \in Int /\ length \in Int
    BY <1>0, <2>1, YearFollows, MonthFollows, DateParts
  <2>9. k = d.day + n - length
    BY <1>0, DateParts
  <2> HIDE DEF after, k, day, length
  <2> QED
    BY <2>2, <2>3, <2>5, <2>6, <2>7, <2>8, <2>9
<1>3. CASE ~(day < 1) /\ ~(day > length)
  <2>1. PlusDays(d, n) = [year |-> d.year, month |-> d.month, day |-> day]
    BY <1>3, DateParts DEF PlusDays
  <2>2. day \in 1..length
    BY <1>0, <1>3
  <2>3. PlusDays(d, n) \in CalendarDates
    BY <2>1, <2>2, ADate, DateParts
  <2>4. Ordinal(PlusDays(d, n)) = DaysBeforeYear(d.year) + DaysBeforeMonth(d.year, d.month) + day
    BY <2>1, <2>3, DateParts
  <2> QED
    BY <2>3, <2>4, DateParts
<1> QED
  BY <1>1, <1>2, <1>3

\* Dates in order of year, month and day; two dates are one when neither is before.
LEMMA InOneYear ==
  ASSUME NEW d \in CalendarDates, NEW e \in CalendarDates, NEW f \in CalendarDates,
         d.year = f.year, Ordinal(d) <= Ordinal(e), Ordinal(e) <= Ordinal(f)
  PROVE  e.year = d.year /\ d.month <= e.month /\ e.month <= f.month
<1>1. ~(e.year < d.year) /\ ~(f.year < e.year)
  BY OrdinalOrder, OrdinalInt
<1>2. e.year = d.year
  BY <1>1, DateParts
<1>3. ~(e.month < d.month) /\ ~(f.month < e.month)
  BY <1>2, OrdinalOrder, OrdinalInt
<1> QED
  BY <1>2, <1>3, DateParts

LEMMA WeekdayOf == \A d \in CalendarDates : Weekday(d) \in 0..6
BY OrdinalInt DEF Weekday

\* What a bucket is: it holds the day it is taken for, and is the same for all
\* the days it holds.
LEMMA MonthBucket ==
  ASSUME NEW d \in CalendarDates, NEW b, b = MonthBounds(d)
  PROVE  /\ b.first \in CalendarDates /\ b.last \in CalendarDates
         /\ Ordinal(b.first) <= Ordinal(d) /\ Ordinal(d) <= Ordinal(b.last)
         /\ \A e \in CalendarDates :
                Ordinal(b.first) <= Ordinal(e) /\ Ordinal(e) <= Ordinal(b.last) =>
                    MonthBounds(e) = b
<1>1. PICK yy, mm, dd : d = [year |-> yy, month |-> mm, day |-> dd]
  BY DateParts
<1>2. /\ yy = d.year /\ mm = d.month /\ dd = d.day
      /\ yy \in Int /\ mm \in Months /\ dd \in 1..MonthLength(yy, mm) /\ MonthLength(yy, mm) \in 28..31
  BY <1>1, DateParts
<1>3. /\ b.first = [year |-> yy, month |-> mm, day |-> 1]
      /\ b.last = [year |-> yy, month |-> mm, day |-> MonthLength(yy, mm)]
      /\ b = [first |-> b.first, last |-> b.last]
  BY <1>1, <1>2 DEF MonthBounds
<1>4. 1 \in 1..MonthLength(yy, mm) /\ MonthLength(yy, mm) \in 1..MonthLength(yy, mm)
  BY <1>2
<1>5. b.first \in CalendarDates /\ b.last \in CalendarDates
  BY <1>2, <1>3, <1>4, ADate
<1>6. Ordinal(b.first) <= Ordinal(d) /\ Ordinal(d) <= Ordinal(b.last)
  <2>1. /\ b.first.year = yy /\ b.first.month = mm /\ b.first.day = 1
        /\ b.last.year = yy /\ b.last.month = mm /\ b.last.day = MonthLength(yy, mm)
    BY <1>3
  <2> QED
    BY <1>2, <1>5, <2>1, DateParts
<1>7. ASSUME NEW e \in CalendarDates, Ordinal(b.first) <= Ordinal(e), Ordinal(e) <= Ordinal(b.last)
      PROVE  MonthBounds(e) = b
  <2>1. b.first.year = b.last.year /\ b.first.month = mm /\ b.last.month = mm /\ b.first.year = yy
    BY <1>3
  <2>2. e.year = yy /\ mm <= e.month /\ e.month <= mm
    BY <1>5, <1>7, <2>1, InOneYear
  <2>3. e.month = mm
    BY <1>2, <2>2, DateParts DEF Months
  <2>4. PICK kk : e = [year |-> yy, month |-> mm, day |-> kk]
    BY <2>2, <2>3, DateParts
  <2> QED
    BY <1>3, <2>2, <2>3, <2>4 DEF MonthBounds
<1> QED
  BY <1>5, <1>6, <1>7

LEMMA YearBucket ==
  ASSUME NEW d \in CalendarDates, NEW b, b = BucketBounds(d, "year")
  PROVE  /\ b.first \in CalendarDates /\ b.last \in CalendarDates
         /\ Ordinal(b.first) <= Ordinal(d) /\ Ordinal(d) <= Ordinal(b.last)
         /\ \A e \in CalendarDates :
                Ordinal(b.first) <= Ordinal(e) /\ Ordinal(e) <= Ordinal(b.last) =>
                    BucketBounds(e, "year") = b
<1>1. PICK yy, mm, dd : d = [year |-> yy, month |-> mm, day |-> dd]
  BY DateParts
<1>2. /\ yy = d.year /\ mm = d.month /\ dd = d.day
      /\ yy \in Int /\ mm \in 1..12 /\ dd \in 1..MonthLength(yy, mm)
      /\ MonthLength(yy, mm) \in 28..31 /\ dd \in Int
  BY <1>1, DateParts DEF Months
<1>2a. (mm = 1 \/ 1 < mm) /\ (dd = 1 \/ 1 < dd) /\ (mm = 12 \/ mm < 12) /\ (dd = 31 \/ dd < 31)
  BY <1>2
<1>3. ASSUME NEW u, NEW v, NEW w
      PROVE  BucketBounds([year |-> u, month |-> v, day |-> w], "year") =
          [first |-> [year |-> u, month |-> 1, day |-> 1],
           last |-> [year |-> u, month |-> 12, day |-> 31]]
  <2>1. \A e : BucketBounds(e, "year") =
            [first |-> [e EXCEPT !.day = 1, !.month = 1],
             last |-> [e EXCEPT !.day = 31, !.month = 12]]
    BY DEF BucketBounds
  <2>2. PICK e : e = [year |-> u, month |-> v, day |-> w]
    OBVIOUS
  <2>3. /\ [e EXCEPT !.day = 1, !.month = 1] = [year |-> u, month |-> 1, day |-> 1]
        /\ [e EXCEPT !.day = 31, !.month = 12] = [year |-> u, month |-> 12, day |-> 31]
    <3>1. PICK f, g : f = [e EXCEPT !.day = 1, !.month = 1]
                    /\ g = [e EXCEPT !.day = 31, !.month = 12]
      OBVIOUS
    <3>2. f = [year |-> u, month |-> 1, day |-> 1] /\ g = [year |-> u, month |-> 12, day |-> 31]
      BY <2>2, <3>1
    <3> QED
      BY <3>1, <3>2
  <2> QED
    BY <2>1, <2>2, <2>3
<1>4. /\ b.first = [year |-> yy, month |-> 1, day |-> 1]
      /\ b.last = [year |-> yy, month |-> 12, day |-> 31]
      /\ b = [first |-> b.first, last |-> b.last]
  <2>1. b = [first |-> [year |-> yy, month |-> 1, day |-> 1],
             last |-> [year |-> yy, month |-> 12, day |-> 31]]
    BY <1>1, <1>3
  <2> QED
    BY <2>1
<1>5. b.first \in CalendarDates /\ b.last \in CalendarDates
  <2>1. 1 \in Months /\ 12 \in Months /\ 1 \in 1..MonthLength(yy, 1) /\ 31 \in 1..MonthLength(yy, 12)
    BY DEF Months, MonthLength
  <2> QED
    BY <1>2, <1>4, <2>1, ADate
<1>6. Ordinal(b.first) <= Ordinal(d) /\ Ordinal(d) <= Ordinal(b.last)
  <2>1. /\ b.first.year = yy /\ b.first.month = 1 /\ b.first.day = 1
        /\ b.last.year = yy /\ b.last.month = 12 /\ b.last.day = 31
    BY <1>4
  <2>2. Ordinal(b.first) <= Ordinal(d)
    <3>1. CASE mm = 1 /\ dd = 1
      <4>1. b.first = d
        BY <1>1, <1>4, <3>1
      <4> QED
        BY <4>1, OrdinalInt
    <3>2. CASE 1 < mm \/ (mm = 1 /\ 1 < dd)
      BY <1>2, <1>5, <2>1, <3>2, OrdinalOrder, OrdinalInt
    <3> QED
      BY <1>2a, <3>1, <3>2
  <2>3. Ordinal(d) <= Ordinal(b.last)
    <3>1. CASE mm = 12 /\ dd = 31
      <4>1. b.last = d
        BY <1>1, <1>4, <3>1
      <4> QED
        BY <4>1, OrdinalInt
    <3>2. CASE mm < 12 \/ (mm = 12 /\ dd < 31)
      BY <1>2, <1>5, <2>1, <3>2, OrdinalOrder, OrdinalInt
    <3> QED
      BY <1>2a, <3>1, <3>2
  <2> QED
    BY <2>2, <2>3
<1>7. ASSUME NEW e \in CalendarDates, Ordinal(b.first) <= Ordinal(e), Ordinal(e) <= Ordinal(b.last)
      PROVE  BucketBounds(e, "year") = b
  <2>1. b.first.year = b.last.year /\ b.first.year = yy
    BY <1>4
  <2>2. e.year = yy
    BY <1>5, <1>7, <2>1, InOneYear
  <2>3. PICK jj, kk : e = [year |-> yy, month |-> jj, day |-> kk]
    BY <2>2, DateParts
  <2> QED
    BY <1>3, <1>4, <2>3
<1> QED
  BY <1>5, <1>6, <1>7

LEMMA WeekBucket ==
  ASSUME NEW d \in CalendarDates, NEW b, b = BucketBounds(d, "week")
  PROVE  /\ b.first \in CalendarDates /\ b.last \in CalendarDates
         /\ Ordinal(b.first) <= Ordinal(d) /\ Ordinal(d) <= Ordinal(b.last)
         /\ \A e \in CalendarDates :
                Ordinal(b.first) <= Ordinal(e) /\ Ordinal(e) <= Ordinal(b.last) =>
                    BucketBounds(e, "week") = b
         /\ DateTrunc("week", d) = b.first
<1>0. \A e : BucketBounds(e, "week") =
          [first |-> PlusDays(e, -Weekday(e)), last |-> PlusDays(PlusDays(e, -Weekday(e)), 6)]
  BY DEF BucketBounds
<1>1. /\ b.first = PlusDays(d, -Weekday(d)) /\ b.last = PlusDays(b.first, 6)
      /\ b = [first |-> b.first, last |-> b.last]
  BY <1>0
<1>2. /\ b.first \in CalendarDates /\ Ordinal(b.first) = Ordinal(d) - Weekday(d)
      /\ Weekday(d) \in 0..6 /\ Ordinal(d) \in Int
  <2>1. PICK w \in 0..6 : w = Weekday(d)
    BY WeekdayOf
  <2>2. -w \in -7..7
    BY <2>1
  <2>3. PlusDays(d, -w) \in CalendarDates /\ Ordinal(PlusDays(d, -w)) = Ordinal(d) + (-w)
    BY <2>2, PlusDaysAdds
  <2> QED
    BY <1>1, <2>1, <2>3, OrdinalInt
<1>3. b.last \in CalendarDates /\ Ordinal(b.last) = Ordinal(b.first) + 6
  <2>1. 6 \in -7..7
    OBVIOUS
  <2> QED
    BY <1>1, <1>2, <2>1, PlusDaysAdds
<1>4. (Ordinal(b.first) - 1) % 7 = 0 /\ Ordinal(b.first) \in Int
  BY <1>2 DEF Weekday
<1>5. ASSUME NEW e \in CalendarDates, Ordinal(b.first) <= Ordinal(e), Ordinal(e) <= Ordinal(b.last)
      PROVE  BucketBounds(e, "week") = b
  <2>1. Ordinal(e) \in Int /\ Ordinal(b.last) \in Int
    BY <1>3, OrdinalInt
  <2>2. Ordinal(e) - Ordinal(b.first) \in 0..6
    BY <1>3, <1>4, <1>5, <2>1
  <2>3. Weekday(e) = Ordinal(e) - Ordinal(b.first)
    BY <1>4, <2>1, <2>2 DEF Weekday
  <2>4. PICK w \in 0..6 : w = Weekday(e)
    BY WeekdayOf
  <2>5. PlusDays(e, -w) \in CalendarDates /\ Ordinal(PlusDays(e, -w)) = Ordinal(e) + (-w)
    <3>1. -w \in -7..7
      BY <2>4
    <3> QED
      BY <3>1, PlusDaysAdds
  <2>6. Ordinal(PlusDays(e, -w)) = Ordinal(b.first)
    BY <1>4, <2>1, <2>3, <2>4, <2>5
  <2>7. PlusDays(e, -Weekday(e)) = b.first
    BY <1>2, <2>4, <2>5, <2>6, OrdinalOfOne
  <2> QED
    BY <1>0, <1>1, <2>7
<1>6. DateTrunc("week", d) = b.first
  <2> DEFINE Back == {PlusDays(d, -n) : n \in 0..6}
  <2>1. DateTrunc("week", d) = CHOOSE e \in Back : Weekday(e) = 0
    BY DEF DateTrunc
  <2>2. b.first \in Back /\ Weekday(b.first) = 0
    BY <1>1, <1>2, <1>4 DEF Weekday
  <2>3. ASSUME NEW e \in Back, Weekday(e) = 0 PROVE e = b.first
    <3>1. PICK n \in 0..6 : e = PlusDays(d, -n)
      OBVIOUS
    <3>2. -n \in -7..7
      BY <3>1
    <3>3. e \in CalendarDates /\ Ordinal(e) = Ordinal(d) + (-n)
      BY <3>1, <3>2, PlusDaysAdds
    <3>4. (Ordinal(d) - n - 1) % 7 = 0
      BY <1>2, <2>3, <3>3 DEF Weekday
    <3>5. Weekday(d) = n
      BY <1>2, <3>4 DEF Weekday
    <3> QED
      BY <1>1, <3>1, <3>5
  <2> HIDE DEF Back
  <2> QED
    BY <2>1, <2>2, <2>3
<1> QED
  BY <1>2, <1>3, <1>5, <1>6

LEMMA BucketOf ==
  ASSUME NEW d \in CalendarDates, NEW bucket \in Buckets, NEW b, b = BucketBounds(d, bucket)
  PROVE  /\ b.first \in CalendarDates /\ b.last \in CalendarDates
         /\ Ordinal(b.first) <= Ordinal(d) /\ Ordinal(d) <= Ordinal(b.last)
         /\ \A e \in CalendarDates :
                Ordinal(b.first) <= Ordinal(e) /\ Ordinal(e) <= Ordinal(b.last) =>
                    BucketBounds(e, bucket) = b
         /\ DateTrunc(bucket, d) = b.first
<1>1. CASE bucket = "day"
  <2>1. \A e : BucketBounds(e, "day") = [first |-> e, last |-> e] /\ DateTrunc("day", e) = e
    BY DEF BucketBounds, DateTrunc
  <2>2. b.first = d /\ b.last = d /\ DateTrunc("day", d) = d
    BY <1>1, <2>1
  <2>3. ASSUME NEW e \in CalendarDates, Ordinal(d) <= Ordinal(e), Ordinal(e) <= Ordinal(d)
        PROVE  e = d
    BY <2>3, OrdinalInt, OrdinalOfOne
  <2> QED
    BY <1>1, <2>1, <2>2, <2>3, OrdinalInt
<1>2. CASE bucket = "week"
  BY <1>2, WeekBucket
<1>3. CASE bucket = "month"
  <2>1. \A e : BucketBounds(e, "month") = MonthBounds(e)
               /\ DateTrunc("month", e) = MonthBounds(e).first
    BY DEF BucketBounds, DateTrunc, MonthBounds
  <2> QED
    BY <1>3, <2>1, MonthBucket
<1>4. CASE bucket = "year"
  <2>1. \A e : DateTrunc("year", e) = BucketBounds(e, "year").first
    BY DEF BucketBounds, DateTrunc
  <2> QED
    BY <1>4, <2>1, YearBucket
<1> QED
  BY <1>1, <1>2, <1>3, <1>4 DEF Buckets

\* PostgreSQL's date_trunc, by which the sums of a trend are grouped
\* (reports/queries.py), gives the first day of the bucket the service lays
\* them over (bucket_bounds in reports/service.py), for each bucket and date:
\* no sum is looked for under another day than the one it is filed under.
THEOREM TruncatedToBucket ==
  \A bucket \in Buckets, d \in CalendarDates :
    DateTrunc(bucket, d) = BucketBounds(d, bucket).first
BY BucketOf

-----------------------------------------------------------------------------
(* The walk of the dense series.                                            *)

\* The row of the bucket d is in, and the walk from one bucket to the next.
Entry(rows, bucket, d) ==
  [first |-> BucketBounds(d, bucket).first, last |-> BucketBounds(d, bucket).last,
   total |-> IF BucketBounds(d, bucket).first \in DOMAIN rows
             THEN rows[BucketBounds(d, bucket).first] ELSE 0]
NextBucket(bucket, d) == PlusDays(BucketBounds(d, bucket).last, 1)
Walks(From, rows, last, bucket) ==
  From = [d \in CalendarDates |->
            IF ~NotAfter(d, last) THEN {}
            ELSE {Entry(rows, bucket, d)} \cup From[NextBucket(bucket, d)]]

LEMMA DenseSeriesWalks ==
  ASSUME NEW rows, NEW q, NEW bucket
  PROVE  DenseSeries(rows, q, bucket) =
           (CHOOSE From : Walks(From, rows, q.last, bucket))[BucketBounds(q.first, bucket).first]
BY DEF DenseSeries, Walks, Entry, NextBucket

\* The days that begin a bucket, up to a last day and after a first.
Heads(bucket, last) ==
  {d \in CalendarDates : BucketBounds(d, bucket).first = d /\ NotAfter(d, last)}
HeadsAfter(bucket, d, last) == {e \in Heads(bucket, last) : Ordinal(d) < Ordinal(e)}
Closed(rows, last, bucket, d) ==
  IF ~NotAfter(d, last) THEN {}
  ELSE {Entry(rows, bucket, d)} \cup
       {Entry(rows, bucket, e) : e \in HeadsAfter(bucket, d, last)}

LEMMA NextBucketBegins ==
  ASSUME NEW d \in CalendarDates, NEW bucket \in Buckets
  PROVE  /\ NextBucket(bucket, d) \in CalendarDates
         /\ Ordinal(d) < Ordinal(NextBucket(bucket, d))
         /\ BucketBounds(NextBucket(bucket, d), bucket).first = NextBucket(bucket, d)
         /\ \A e \in CalendarDates :
              BucketBounds(e, bucket).first = e /\ Ordinal(d) < Ordinal(e) =>
                Ordinal(NextBucket(bucket, d)) <= Ordinal(e)
<1>0. PICK b : b = BucketBounds(d, bucket)
  OBVIOUS
<1>1. PICK next : next = NextBucket(bucket, d)
  OBVIOUS
<1>2. /\ b.first \in CalendarDates /\ b.last \in CalendarDates
      /\ Ordinal(b.first) <= Ordinal(d) /\ Ordinal(d) <= Ordinal(b.last)
      /\ \A e \in CalendarDates :
           Ordinal(b.first) <= Ordinal(e) /\ Ordinal(e) <= Ordinal(b.last) =>
             BucketBounds(e, bucket) = b
  BY <1>0, BucketOf
<1>3. next \in CalendarDates /\ Ordinal(next) = Ordinal(b.last) + 1
  <2>1. 1 \in -7..7
    OBVIOUS
  <2> QED
    BY <1>0, <1>1, <1>2, <2>1, PlusDaysAdds DEF NextBucket
<1>4. Ordinal(d) \in Int /\ Ordinal(b.first) \in Int /\ Ordinal(b.last) \in Int /\ Ordinal(next) \in Int
  BY <1>2, <1>3, OrdinalInt
<1>5. BucketBounds(next, bucket).first = next
  <2>1. PICK c : c = BucketBounds(next, bucket)
    OBVIOUS
  <2>2. /\ c.first \in CalendarDates
        /\ Ordinal(c.first) <= Ordinal(next) /\ Ordinal(next) <= Ordinal(c.last)
        /\ \A e \in CalendarDates :
             Ordinal(c.first) <= Ordinal(e) /\ Ordinal(e) <= Ordinal(c.last) =>
               BucketBounds(e, bucket) = c
        /\ Ordinal(c.first) \in Int /\ Ordinal(c.last) \in Int
    BY <1>3, <2>1, BucketOf, OrdinalInt
  <2>3. ~(Ordinal(c.first) < Ordinal(next))
    <3> SUFFICES ASSUME Ordinal(c.first) < Ordinal(next) PROVE FALSE
      OBVIOUS
    <3>1. Ordinal(c.first) <= Ordinal(b.last) /\ Ordinal(b.last) <= Ordinal(c.last)
      BY <1>3, <1>4, <2>2
    <3>2. BucketBounds(b.last, bucket) = c /\ BucketBounds(b.last, bucket) = b
      BY <1>2, <1>4, <2>2, <3>1
    <3> QED
      BY <1>3, <1>4, <2>2, <3>2
  <2>4. Ordinal(c.first) = Ordinal(next)
    BY <1>4, <2>2, <2>3
  <2> QED
    BY <1>3, <2>1, <2>2, <2>4, OrdinalOfOne
<1>6. ASSUME NEW e \in CalendarDates, BucketBounds(e, bucket).first = e, Ordinal(d) < Ordinal(e)
      PROVE  Ordinal(next) <= Ordinal(e)
  <2>1. Ordinal(e) \in Int
    BY OrdinalInt
  <2>2. ~(Ordinal(e) <= Ordinal(b.last))
    <3> SUFFICES ASSUME Ordinal(e) <= Ordinal(b.last) PROVE FALSE
      OBVIOUS
    <3>1. BucketBounds(e, bucket) = b
      BY <1>2, <1>4, <1>6, <2>1
    <3> QED
      BY <1>2, <1>4, <1>6, <2>1, <3>1
  <2> QED
    BY <1>3, <1>4, <2>1, <2>2
<1> QED
  BY <1>1, <1>2, <1>3, <1>4, <1>5, <1>6

LEMMA ClosedWalks ==
  ASSUME NEW rows, NEW last \in CalendarDates, NEW bucket \in Buckets,
         NEW d \in CalendarDates, NotAfter(d, last)
  PROVE  Closed(rows, last, bucket, d) =
           {Entry(rows, bucket, d)} \cup Closed(rows, last, bucket, NextBucket(bucket, d))
<1>1. PICK next : next = NextBucket(bucket, d)
  OBVIOUS
<1>2. /\ next \in CalendarDates /\ Ordinal(d) < Ordinal(next)
      /\ BucketBounds(next, bucket).first = next
      /\ \A e \in CalendarDates :
           BucketBounds(e, bucket).first = e /\ Ordinal(d) < Ordinal(e) =>
             Ordinal(next) <= Ordinal(e)
  BY <1>1, NextBucketBegins
<1>3. Ordinal(d) \in Int /\ Ordinal(next) \in Int /\ Ordinal(last) \in Int
  BY <1>2, OrdinalInt
<1>4. CASE ~NotAfter(next, last)
  <2>1. HeadsAfter(bucket, d, last) = {}
    <3> SUFFICES ASSUME NEW e \in HeadsAfter(bucket, d, last) PROVE FALSE
      OBVIOUS
    <3>1. /\ e \in CalendarDates /\ BucketBounds(e, bucket).first = e
          /\ Ordinal(d) < Ordinal(e) /\ Ordinal(e) <= Ordinal(last) /\ Ordinal(e) \in Int
      BY OrdinalInt DEF HeadsAfter, Heads, NotAfter
    <3> QED
      BY <1>2, <1>3, <1>4, <3>1 DEF NotAfter
  <2> QED
    BY <1>1, <1>4, <2>1 DEF Closed
<1>5. CASE NotAfter(next, last)
  <2>1. next \in HeadsAfter(bucket, d, last)
    BY <1>2, <1>5 DEF HeadsAfter, Heads
  <2>2. ASSUME NEW e \in HeadsAfter(bucket, d, last), e # next
        PROVE  e \in HeadsAfter(bucket, next, last)
    <3>1. /\ e \in CalendarDates /\ BucketBounds(e, bucket).first = e /\ NotAfter(e, last)
          /\ Ordinal(d) < Ordinal(e) /\ Ordinal(e) \in Int
      BY OrdinalInt DEF HeadsAfter, Heads
    <3>2. Ordinal(next) <= Ordinal(e) /\ Ordinal(next) # Ordinal(e)
      BY <1>2, <2>2, <3>1, OrdinalOfOne
    <3> QED
      BY <1>3, <3>1, <3>2 DEF HeadsAfter, Heads
  <2>3. HeadsAfter(bucket, next, last) \subseteq HeadsAfter(bucket, d, last)
    <3> SUFFICES ASSUME NEW e \in HeadsAfter(bucket, next, last)
                 PROVE  e \in HeadsAfter(bucket, d, last)
      OBVIOUS
    <3>1. e \in Heads(bucket, last) /\ Ordinal(next) < Ordinal(e) /\ Ordinal(e) \in Int
      BY OrdinalInt DEF HeadsAfter, Heads
    <3> QED
      BY <1>2, <1>3, <3>1 DEF HeadsAfter
  <2>4. Closed(rows, last, bucket, d) =
          {Entry(rows, bucket, d)} \cup
            {Entry(rows, bucket, e) : e \in HeadsAfter(bucket, d, last)}
    BY DEF Closed
  <2>5. Closed(rows, last, bucket, next) =
          {Entry(rows, bucket, next)} \cup
            {Entry(rows, bucket, e) : e \in HeadsAfter(bucket, next, last)}
    BY <1>5 DEF Closed
  <2>6. {Entry(rows, bucket, e) : e \in HeadsAfter(bucket, d, last)} =
          {Entry(rows, bucket, next)} \cup
            {Entry(rows, bucket, e) : e \in HeadsAfter(bucket, next, last)}
    BY <2>1, <2>2, <2>3
  <2> QED
    BY <1>1, <2>4, <2>5, <2>6
<1> QED
  BY <1>4, <1>5

\* The walk exists,
LEMMA WalkExists ==
  ASSUME NEW rows, NEW last \in CalendarDates, NEW bucket \in Buckets
  PROVE  \E From : Walks(From, rows, last, bucket)
<1>1. PICK From : From = [d \in CalendarDates |-> Closed(rows, last, bucket, d)]
  OBVIOUS
<1>2. ASSUME NEW d \in CalendarDates
      PROVE  From[d] = IF ~NotAfter(d, last) THEN {}
                       ELSE {Entry(rows, bucket, d)} \cup From[NextBucket(bucket, d)]
  <2>1. NextBucket(bucket, d) \in CalendarDates
    BY NextBucketBegins
  <2>2. CASE NotAfter(d, last)
    BY <1>1, <2>1, <2>2, ClosedWalks
  <2>3. CASE ~NotAfter(d, last)
    BY <1>1, <2>3 DEF Closed
  <2> QED
    BY <2>2, <2>3
<1>3. From = [d \in CalendarDates |-> From[d]]
  BY <1>1
<1>4. From = [d \in CalendarDates |->
                IF ~NotAfter(d, last) THEN {}
                ELSE {Entry(rows, bucket, d)} \cup From[NextBucket(bucket, d)]]
  BY <1>2, <1>3
<1> QED
  BY <1>4 DEF Walks

\* and collects the buckets up to the last day: what a walk gives from the
\* latest day on which it gives something else would be right on the next.
LEMMA WalkIsClosed ==
  ASSUME NEW rows, NEW last \in CalendarDates, NEW bucket \in Buckets,
         NEW From, Walks(From, rows, last, bucket), NEW d \in CalendarDates
  PROVE  From[d] = Closed(rows, last, bucket, d)
<1> DEFINE Left(e) == Ordinal(last) - Ordinal(e)
           Bad == {e \in CalendarDates : From[e] # Closed(rows, last, bucket, e)}
           Runs == {0..Left(e) : e \in Bad}
<1>1. ASSUME NEW e \in CalendarDates
      PROVE  From[e] = IF ~NotAfter(e, last) THEN {}
                       ELSE {Entry(rows, bucket, e)} \cup From[NextBucket(bucket, e)]
  BY DEF Walks
<1>2. ASSUME NEW e \in CalendarDates PROVE Left(e) \in Int
  BY OrdinalInt
<1>3. \A e \in Bad : NotAfter(e, last) /\ Left(e) \in Nat
  <2> TAKE e \in Bad
  <2>1. NotAfter(e, last)
    BY <1>1 DEF Closed
  <2> QED
    BY <1>2, <2>1, OrdinalInt DEF NotAfter
<1>4. \A e \in Bad : NextBucket(bucket, e) \in Bad /\ Left(NextBucket(bucket, e)) < Left(e)
  <2> TAKE e \in Bad
  <2>1. NextBucket(bucket, e) \in CalendarDates /\ Ordinal(e) < Ordinal(NextBucket(bucket, e))
    BY NextBucketBegins
  <2>2. Closed(rows, last, bucket, e) =
           {Entry(rows, bucket, e)} \cup Closed(rows, last, bucket, NextBucket(bucket, e))
    BY <1>3, ClosedWalks
  <2>3. From[NextBucket(bucket, e)] # Closed(rows, last, bucket, NextBucket(bucket, e))
    BY <1>1, <1>3, <2>2
  <2> QED
    BY <2>1, <2>3, OrdinalInt
<1>5. ASSUME d \in Bad PROVE FALSE
  <2>1. Runs # {}
    BY <1>5
  <2>2. \A R \in Runs : IsFiniteSet(R)
    <3> SUFFICES ASSUME NEW e \in Bad PROVE IsFiniteSet(0..Left(e))
      OBVIOUS
    <3>1. Left(e) \in Int
      BY <1>2
    <3> HIDE DEF Left
    <3> QED
      BY <3>1, FS_Interval
  <2>3. PICK R \in Runs : \A T \in Runs : T \subseteq R => T = R
    <3> HIDE DEF Runs
    <3> QED
      BY <2>1, <2>2, LeastSet
  <2>4. PICK e \in Bad : R = 0..Left(e)
    OBVIOUS
  <2>5. PICK n : n = NextBucket(bucket, e)
    OBVIOUS
  <2>6. n \in Bad /\ Left(n) < Left(e) /\ Left(n) \in Nat /\ Left(e) \in Nat
    BY <1>3, <1>4, <2>5
  <2>7. 0..Left(n) \in Runs
    BY <2>6
  <2> HIDE DEF Bad, Runs, Left
  <2>8. 0..Left(n) \subseteq R /\ Left(e) \in R /\ Left(e) \notin 0..Left(n)
    BY <2>4, <2>6
  <2> QED
    BY <2>3, <2>7, <2>8
<1> QED
  BY <1>5

\* The buckets from the first day's to the last's.
Span(q, bucket) ==
  {e \in Heads(bucket, q.last) : Ordinal(BucketBounds(q.first, bucket).first) <= Ordinal(e)}

LEMMA SeriesSpans ==
  ASSUME NEW rows, NEW q, q.first \in CalendarDates, q.last \in CalendarDates,
         NEW bucket \in Buckets
  PROVE  DenseSeries(rows, q, bucket) = {Entry(rows, bucket, e) : e \in Span(q, bucket)}
<1>1. PICK h : h = BucketBounds(q.first, bucket).first
  OBVIOUS
<1>2. h \in CalendarDates /\ BucketBounds(h, bucket).first = h /\ Ordinal(h) \in Int
  <2>1. PICK b : b = BucketBounds(q.first, bucket)
    OBVIOUS
  <2>2. /\ b.first \in CalendarDates /\ b.last \in CalendarDates
        /\ Ordinal(b.first) <= Ordinal(q.first) /\ Ordinal(q.first) <= Ordinal(b.last)
        /\ \A e \in CalendarDates :
             Ordinal(b.first) <= Ordinal(e) /\ Ordinal(e) <= Ordinal(b.last) =>
               BucketBounds(e, bucket) = b
    BY <2>1, BucketOf
  <2>3. Ordinal(b.first) \in Int /\ Ordinal(b.last) \in Int /\ Ordinal(q.first) \in Int
    BY <2>2, OrdinalInt
  <2>4. Ordinal(b.first) <= Ordinal(b.first) /\ Ordinal(b.first) <= Ordinal(b.last)
    BY <2>2, <2>3
  <2>5. BucketBounds(b.first, bucket) = b
    BY <2>2, <2>4
  <2> QED
    BY <1>1, <2>1, <2>2, <2>3, <2>5
<1>3. DenseSeries(rows, q, bucket) = Closed(rows, q.last, bucket, h)
  <2>1. PICK From : From = CHOOSE F : Walks(F, rows, q.last, bucket)
    OBVIOUS
  <2>2. Walks(From, rows, q.last, bucket)
    BY <2>1, WalkExists
  <2> QED
    BY <1>1, <1>2, <2>1, <2>2, DenseSeriesWalks, WalkIsClosed
<1>4. CASE NotAfter(h, q.last)
  <2>1. Span(q, bucket) = {h} \cup HeadsAfter(bucket, h, q.last)
    <3>1. h \in Span(q, bucket)
      BY <1>1, <1>2, <1>4 DEF Span, Heads
    <3>2. ASSUME NEW e \in Span(q, bucket), e # h PROVE e \in HeadsAfter(bucket, h, q.last)
      <4>1. e \in Heads(bucket, q.last) /\ e \in CalendarDates /\ Ordinal(h) <= Ordinal(e)
        BY <1>1 DEF Span, Heads
      <4>2. Ordinal(e) # Ordinal(h)
        BY <1>2, <3>2, <4>1, OrdinalOfOne
      <4> QED
        BY <1>2, <4>1, <4>2, OrdinalInt DEF HeadsAfter
    <3>3. ASSUME NEW e \in HeadsAfter(bucket, h, q.last) PROVE e \in Span(q, bucket)
      <4>1. e \in Heads(bucket, q.last) /\ e \in CalendarDates /\ Ordinal(h) < Ordinal(e)
        BY DEF HeadsAfter, Heads
      <4> QED
        BY <1>1, <1>2, <4>1, OrdinalInt DEF Span
    <3> QED
      BY <3>1, <3>2, <3>3
  <2>2. Closed(rows, q.last, bucket, h) =
          {Entry(rows, bucket, h)} \cup
            {Entry(rows, bucket, e) : e \in HeadsAfter(bucket, h, q.last)}
    BY <1>4 DEF Closed
  <2> QED
    BY <1>3, <2>1, <2>2
<1>5. CASE ~NotAfter(h, q.last)
  <2>1. Span(q, bucket) = {}
    <3> SUFFICES ASSUME NEW e \in Span(q, bucket) PROVE FALSE
      OBVIOUS
    <3>1. e \in CalendarDates /\ Ordinal(e) <= Ordinal(q.last) /\ Ordinal(h) <= Ordinal(e)
      BY <1>1 DEF Span, Heads, NotAfter
    <3> QED
      BY <1>2, <1>5, <3>1, OrdinalInt DEF NotAfter
  <2> QED
    BY <1>3, <1>5, <2>1 DEF Closed
<1> QED
  BY <1>4, <1>5

\* The series is dense (dense_series in reports/service.py): each day from the
\* first of a query to its last is in one bucket of it, and in one only.
THEOREM EachDayOnce ==
  ASSUME NEW rows, NEW q, q.first \in CalendarDates, q.last \in CalendarDates,
         NEW bucket \in Buckets,
         NEW d \in CalendarDates, NotAfter(q.first, d), NotAfter(d, q.last)
  PROVE  \E p \in DenseSeries(rows, q, bucket) :
           /\ NotAfter(p.first, d) /\ NotAfter(d, p.last)
           /\ \A o \in DenseSeries(rows, q, bucket) :
                NotAfter(o.first, d) /\ NotAfter(d, o.last) => o = p
<1>1. PICK b : b = BucketBounds(d, bucket)
  OBVIOUS
<1>2. /\ b.first \in CalendarDates /\ b.last \in CalendarDates
      /\ Ordinal(b.first) <= Ordinal(d) /\ Ordinal(d) <= Ordinal(b.last)
      /\ \A e \in CalendarDates :
           Ordinal(b.first) <= Ordinal(e) /\ Ordinal(e) <= Ordinal(b.last) =>
             BucketBounds(e, bucket) = b
  BY <1>1, BucketOf
<1>3. /\ Ordinal(b.first) \in Int /\ Ordinal(b.last) \in Int /\ Ordinal(d) \in Int
      /\ Ordinal(q.first) \in Int /\ Ordinal(q.last) \in Int
  BY <1>2, OrdinalInt
<1>4. BucketBounds(b.first, bucket) = b
  <2>1. Ordinal(b.first) <= Ordinal(b.first) /\ Ordinal(b.first) <= Ordinal(b.last)
    BY <1>2, <1>3
  <2> QED
    BY <1>2, <2>1
<1>5. b.first \in Span(q, bucket)
  <2>1. NotAfter(b.first, q.last)
    BY <1>2, <1>3 DEF NotAfter
  <2>2. PICK a : a = BucketBounds(q.first, bucket)
    OBVIOUS
  <2>3. /\ a.first \in CalendarDates /\ a.last \in CalendarDates
        /\ Ordinal(a.first) <= Ordinal(q.first) /\ Ordinal(q.first) <= Ordinal(a.last)
        /\ Ordinal(a.first) \in Int /\ Ordinal(a.last) \in Int
    BY <2>2, BucketOf, OrdinalInt
  <2>4. ~(Ordinal(b.first) < Ordinal(a.first))
    <3> SUFFICES ASSUME Ordinal(b.first) < Ordinal(a.first) PROVE FALSE
      OBVIOUS
    <3>1. Ordinal(b.first) <= Ordinal(q.first) /\ Ordinal(q.first) <= Ordinal(b.last)
      BY <1>2, <1>3, <2>3 DEF NotAfter
    <3>2. a = b
      BY <1>2, <2>2, <3>1
    <3> QED
      BY <1>3, <3>2
  <2> QED
    BY <1>2, <1>3, <1>4, <2>1, <2>2, <2>3, <2>4 DEF Span, Heads
<1>6. PICK p : p = Entry(rows, bucket, b.first)
  OBVIOUS
<1>7. p \in DenseSeries(rows, q, bucket) /\ p.first = b.first /\ p.last = b.last
  BY <1>4, <1>5, <1>6, SeriesSpans DEF Entry
<1>8. NotAfter(p.first, d) /\ NotAfter(d, p.last)
  BY <1>2, <1>7 DEF NotAfter
<1>9. ASSUME NEW o \in DenseSeries(rows, q, bucket), NotAfter(o.first, d), NotAfter(d, o.last)
      PROVE  o = p
  <2>1. PICK e \in Span(q, bucket) : o = Entry(rows, bucket, e)
    BY SeriesSpans
  <2>2. e \in CalendarDates /\ BucketBounds(e, bucket).first = e
    BY DEF Span, Heads
  <2>3. PICK c : c = BucketBounds(e, bucket)
    OBVIOUS
  <2>4. o.first = c.first /\ o.last = c.last
    BY <2>1, <2>3 DEF Entry
  <2>5. Ordinal(c.first) <= Ordinal(d) /\ Ordinal(d) <= Ordinal(c.last)
    BY <1>9, <2>4 DEF NotAfter
  <2>6. c = b
    BY <1>1, <2>2, <2>3, <2>5, BucketOf
  <2>7. e = b.first
    BY <2>2, <2>3, <2>6
  <2> QED
    BY <1>6, <2>1, <2>7
<1> QED
  BY <1>7, <1>8, <1>9

LEMMA SpanFinite ==
  ASSUME NEW q, q.first \in CalendarDates, q.last \in CalendarDates, NEW bucket \in Buckets
  PROVE  IsFiniteSet(Span(q, bucket))
<1>1. PICK low \in Int : low = Ordinal(BucketBounds(q.first, bucket).first)
  <2>1. BucketBounds(q.first, bucket).first \in CalendarDates
    BY BucketOf
  <2> QED
    BY <2>1, OrdinalInt
<1>2. PICK high \in Int : high = Ordinal(q.last)
  BY OrdinalInt
<1>3. PICK f : f = [e \in Span(q, bucket) |-> Ordinal(e)]
  OBVIOUS
<1>4. \A e \in Span(q, bucket) : e \in CalendarDates /\ Ordinal(e) \in low..high
  BY <1>1, <1>2, OrdinalInt DEF Span, Heads, NotAfter
<1>5. f \in Injection(Span(q, bucket), low..high)
  <2>1. f \in [Span(q, bucket) -> low..high]
    BY <1>3, <1>4
  <2>2. \A e, g \in Span(q, bucket) : f[e] = f[g] => e = g
    BY <1>3, <1>4, OrdinalOfOne
  <2> QED
    BY <2>1, <2>2 DEF Injection, IsInjective
<1> QED
  BY <1>5, FS_Interval, FS_Injection

\* The totals of the series, a bucket without a row having none.
Padded(rows, q, bucket) ==
  [e \in Span(q, bucket) |-> IF e \in DOMAIN rows THEN rows[e] ELSE 0]

LEMMA SeriesTotal ==
  ASSUME NEW rows, NEW q, q.first \in CalendarDates, q.last \in CalendarDates,
         NEW bucket \in Buckets, \A e \in DOMAIN rows : rows[e] \in Int
  PROVE  SumFunction([p \in DenseSeries(rows, q, bucket) |-> p.total]) =
           SumFunctionOnSet(Padded(rows, q, bucket), Span(q, bucket))
<1>1. PICK S : S = Span(q, bucket)
  OBVIOUS
<1>2. PICK f : f = Padded(rows, q, bucket)
  OBVIOUS
<1>3. PICK T : T = DenseSeries(rows, q, bucket)
  OBVIOUS
<1>4. PICK g : g = [p \in T |-> p.total]
  OBVIOUS
<1>5. PICK j : j = [e \in S |-> Entry(rows, bucket, e)]
  OBVIOUS
<1>6. Summable(f, S)
  BY <1>1, <1>2, SpanFinite DEF Summable, Padded
<1>7. ASSUME NEW e \in S
      PROVE  /\ j[e] = Entry(rows, bucket, e) /\ j[e].first = e
             /\ j[e] \in T /\ g[j[e]] = f[e]
  <2>1. e \in CalendarDates /\ BucketBounds(e, bucket).first = e
    BY <1>1 DEF Span, Heads
  <2>2. j[e] = Entry(rows, bucket, e)
    BY <1>5
  <2>3. /\ Entry(rows, bucket, e).first = e
        /\ Entry(rows, bucket, e).total = IF e \in DOMAIN rows THEN rows[e] ELSE 0
    BY <2>1 DEF Entry
  <2>4. j[e] \in T
    BY <1>1, <1>3, <2>2, SeriesSpans
  <2>5. f[e] = IF e \in DOMAIN rows THEN rows[e] ELSE 0
    BY <1>1, <1>2 DEF Padded
  <2> QED
    BY <1>4, <2>2, <2>3, <2>4, <2>5
<1>8. \A x, y \in S : j[x] = j[y] => x = y
  BY <1>7
<1>9. \A p \in T : \E e \in S : p = j[e]
  BY <1>1, <1>3, <1>7, SeriesSpans
<1>10. SumFunctionOnSet(g, T) = SumFunctionOnSet(f, S)
  BY <1>6, <1>7, <1>8, <1>9, SumReindexed
<1>11. SumFunction(g) = SumFunctionOnSet(g, T)
  BY <1>4 DEF SumFunction
<1> QED
  BY <1>1, <1>2, <1>3, <1>4, <1>10, <1>11

-----------------------------------------------------------------------------
(* The reports count each line once.                                        *)

\* Books whose rows refer to rows that are there.
Kept(book) ==
  /\ IsFiniteSet(DOMAIN book.parents) /\ IsFiniteSet(DOMAIN book.transactions)
  /\ \A t \in DOMAIN book.transactions :
        /\ book.transactions[t].day \in CalendarDates
        /\ DOMAIN book.transactions[t].lines \subseteq DOMAIN book.parents
        /\ \A c \in DOMAIN book.transactions[t].lines :
              book.transactions[t].lines[c] \in Int

\* The lines a query looks at, and what each counts for in it.
Seen(book, u, q) == VisibleTransactions(book, u, q.account, q.first, q.last)
SeenLines(book, u, q) ==
  {p \in Seen(book, u, q) \X DOMAIN book.parents :
      p[2] \in DOMAIN book.transactions[p[1]].lines}
Counted(book, q, t, c) ==
  BreakdownAmount(book, book.transactions[t], q, book.transactions[t].lines[c])
Counts(book, u, q) == [p \in SeenLines(book, u, q) |-> Counted(book, q, p[1], p[2])]

LEMMA SeenLine ==
  ASSUME NEW book, Kept(book), NEW u, NEW q
  PROVE  /\ \A t \in Seen(book, u, q) : \A c \in DOMAIN book.transactions[t].lines :
              /\ <<t, c>> \in SeenLines(book, u, q)
              /\ Counted(book, q, t, c) \in Int
              /\ Counts(book, u, q)[<<t, c>>] = Counted(book, q, t, c)
         /\ \A p \in SeenLines(book, u, q) :
              /\ p = <<p[1], p[2]>> /\ p[1] \in Seen(book, u, q)
              /\ p[2] \in DOMAIN book.transactions[p[1]].lines
              /\ p[2] \in DOMAIN book.parents
<1>1. ASSUME NEW t \in Seen(book, u, q)
      PROVE  t \in DOMAIN book.transactions
  BY DEF Seen, VisibleTransactions
<1>2. ASSUME NEW t \in Seen(book, u, q), NEW c \in DOMAIN book.transactions[t].lines
      PROVE  /\ <<t, c>> \in SeenLines(book, u, q)
             /\ Counted(book, q, t, c) \in Int
             /\ Counts(book, u, q)[<<t, c>>] = Counted(book, q, t, c)
  <2>1. c \in DOMAIN book.parents /\ book.transactions[t].lines[c] \in Int
    BY <1>1 DEF Kept
  <2>2. <<t, c>> \in SeenLines(book, u, q)
    BY <2>1 DEF SeenLines
  <2>3. Counts(book, u, q)[<<t, c>>] = Counted(book, q, t, c)
    BY <2>2 DEF Counts
  <2> QED
    BY <2>1, <2>2, <2>3 DEF Counted, BreakdownAmount
<1>3. ASSUME NEW p \in SeenLines(book, u, q)
      PROVE  /\ p = <<p[1], p[2]>> /\ p[1] \in Seen(book, u, q)
             /\ p[2] \in DOMAIN book.transactions[p[1]].lines
             /\ p[2] \in DOMAIN book.parents
  BY DEF SeenLines
<1> QED
  BY <1>2, <1>3

LEMMA CountsSummable ==
  ASSUME NEW book, Kept(book), NEW u, NEW q
  PROVE  Summable(Counts(book, u, q), SeenLines(book, u, q)) /\ IsFiniteSet(Seen(book, u, q))
<1>1. IsFiniteSet(Seen(book, u, q))
  <2>1. Seen(book, u, q) \subseteq DOMAIN book.transactions
    BY DEF Seen, VisibleTransactions
  <2> QED
    BY <2>1, FS_Subset DEF Kept
<1>2. IsFiniteSet(Seen(book, u, q) \X DOMAIN book.parents)
  BY <1>1, FS_Product DEF Kept
<1>3. IsFiniteSet(SeenLines(book, u, q))
  <2>1. SeenLines(book, u, q) \subseteq Seen(book, u, q) \X DOMAIN book.parents
    BY DEF SeenLines
  <2> QED
    BY <1>2, <2>1, FS_Subset
<1>4. ASSUME NEW p \in SeenLines(book, u, q) PROVE Counts(book, u, q)[p] \in Int
  <2>1. PICK t, c : /\ p = <<t, c>> /\ t \in Seen(book, u, q)
                  /\ c \in DOMAIN book.transactions[t].lines
    BY SeenLine
  <2> QED
    BY <2>1, SeenLine
<1> QED
  BY <1>1, <1>3, <1>4 DEF Summable

\* A part of the lines is summable, too.
LEMMA PartSummable ==
  ASSUME NEW f, NEW S, Summable(f, S), NEW T, T \subseteq S
  PROVE  Summable(f, T)
BY FS_Subset DEF Summable

\* The lines of the breakdown sum to what the lines of the transactions count for.
LEMMA BreakdownTotal ==
  ASSUME NEW book, Kept(book), NEW u, NEW q
  PROVE  /\ SumFunction(CategoryTotals(book, u, q)) =
              SumFunctionOnSet(Counts(book, u, q), SeenLines(book, u, q))
         /\ DOMAIN CategoryTotals(book, u, q) = DOMAIN book.parents
         /\ Summable(CategoryTotals(book, u, q), DOMAIN book.parents)
<1>1. PICK F, P : F = Counts(book, u, q) /\ P = SeenLines(book, u, q)
  OBVIOUS
<1>2. PICK own : own = CategoryTotals(book, u, q)
  OBVIOUS
<1>3. PICK K : K = DOMAIN book.parents
  OBVIOUS
<1>4. PICK k : k = [p \in P |-> p[2]]
  OBVIOUS
<1>5. Summable(F, P)
  BY <1>1, CountsSummable
<1>6. \A p \in P : k[p] \in K
  BY <1>1, <1>3, <1>4, SeenLine
<1>7. DOMAIN own = K
  BY <1>2, <1>3 DEF CategoryTotals
<1>8. ASSUME NEW c \in K PROVE own[c] = SumFunctionOnSet(F, Group(P, k, c))
  <2>1. PICK S : S = {t \in Seen(book, u, q) : c \in DOMAIN book.transactions[t].lines}
    OBVIOUS
  <2>2. PICK h : h = [t \in S |-> Counted(book, q, t, c)]
    OBVIOUS
  <2>3. own[c] = SumFunction(h)
    BY <1>2, <1>3, <2>1, <2>2 DEF CategoryTotals, Seen, Counted
  <2>4. own[c] = SumFunctionOnSet(h, S)
    BY <2>2, <2>3 DEF SumFunction
  <2>5. PICK T : T = Group(P, k, c)
    OBVIOUS
  <2>6. PICK j : j = [t \in S |-> <<t, c>>]
    OBVIOUS
  <2>7. ASSUME NEW t \in S
        PROVE  j[t] = <<t, c>> /\ j[t] \in T /\ F[j[t]] = h[t] /\ h[t] \in Int
    <3>1. t \in Seen(book, u, q) /\ c \in DOMAIN book.transactions[t].lines
      BY <2>1
    <3>2. <<t, c>> \in P /\ F[<<t, c>>] = Counted(book, q, t, c) /\ Counted(book, q, t, c) \in Int
      BY <1>1, <3>1, SeenLine
    <3> QED
      BY <1>4, <2>2, <2>5, <2>6, <3>2 DEF Group
  <2>8. Summable(h, S)
    <3>1. S \subseteq Seen(book, u, q)
      BY <2>1
    <3>2. IsFiniteSet(S)
      BY <3>1, CountsSummable, FS_Subset
    <3> QED
      BY <2>7, <3>2 DEF Summable
  <2>9. \A x, y \in S : j[x] = j[y] => x = y
    BY <2>7
  <2>10. \A p \in T : \E t \in S : p = j[t]
    <3> TAKE p \in T
    <3>1. p \in P /\ p[2] = c
      BY <1>4, <2>5 DEF Group
    <3>2. p = <<p[1], c>> /\ p[1] \in S
      BY <1>1, <2>1, <3>1, SeenLine
    <3> QED
      BY <2>6, <3>2
  <2>11. SumFunctionOnSet(F, T) = SumFunctionOnSet(h, S)
    BY <2>7, <2>8, <2>9, <2>10, SumReindexed
  <2> QED
    BY <2>4, <2>5, <2>11
<1>9. IsFiniteSet(K)
  BY <1>3 DEF Kept
<1>10. SumFunctionOnSet(own, K) = SumFunctionOnSet(F, P)
  <2>1. \A c \in K : own[c] = SumFunctionOnSet(F, Group(P, k, c))
    BY <1>8
  <2> QED
    BY <1>5, <1>6, <1>9, <2>1, SumOfGroups
<1>11. Summable(own, K)
  <2>1. ASSUME NEW c \in K PROVE own[c] \in Int
    <3>1. PICK T : T = Group(P, k, c)
      OBVIOUS
    <3>2. Summable(F, T)
      BY <1>5, <3>1, PartSummable DEF Group
    <3>3. own[c] = SumFunctionOnSet(F, T)
      BY <1>8, <3>1
    <3> QED
      BY <3>2, <3>3, SumInt
  <2> QED
    BY <1>9, <2>1 DEF Summable
<1> QED
  BY <1>1, <1>2, <1>3, <1>7, <1>10, <1>11 DEF SumFunction

\* So do the buckets of the trend.
LEMMA TrendTotal ==
  ASSUME NEW book, Kept(book), NEW u, NEW q,
         q.first \in CalendarDates, q.last \in CalendarDates, NEW bucket \in Buckets
  PROVE  SumFunction([p \in Trend(book, u, q, bucket) |-> p.total]) =
           SumFunctionOnSet(Counts(book, u, q), SeenLines(book, u, q))
<1>1. PICK F, P : F = Counts(book, u, q) /\ P = SeenLines(book, u, q)
  OBVIOUS
<1>2. Summable(F, P)
  BY <1>1, CountsSummable
<1>3. PICK S : S = {t \in Seen(book, u, q) : book.transactions[t].lines # <<>>}
  OBVIOUS
<1>4. PICK start : start = [t \in S |-> DateTrunc(bucket, book.transactions[t].day)]
  OBVIOUS
<1>5. PICK value : value = [t \in S |-> SumFunction([c \in DOMAIN book.transactions[t].lines |->
                                                       Counted(book, q, t, c)])]
  OBVIOUS
<1>6. PICK rows : rows = TrendTotals(book, u, q, bucket)
  OBVIOUS
<1>7. rows = [s \in Range(start) |-> SumFunctionOnSet(value, Group(S, start, s))]
  BY <1>3, <1>4, <1>5, <1>6 DEF TrendTotals, Seen, Counted, Group, TrendAmount, BreakdownAmount
<1>8. IsFiniteSet(S)
  BY <1>3, CountsSummable, FS_Subset
<1>9. PICK k : k = [p \in P |-> p[1]]
  OBVIOUS
<1>10. \A p \in P : k[p] \in S
  <2> TAKE p \in P
  <2>1. p[1] \in Seen(book, u, q) /\ p[2] \in DOMAIN book.transactions[p[1]].lines
    BY <1>1, SeenLine
  <2>2. book.transactions[p[1]].lines # <<>>
    BY <2>1
  <2> QED
    BY <1>3, <1>9, <2>1, <2>2
<1>11. ASSUME NEW t \in S PROVE value[t] = SumFunctionOnSet(F, Group(P, k, t))
  <2>1. PICK C : C = DOMAIN book.transactions[t].lines
    OBVIOUS
  <2>2. PICK h : h = [c \in C |-> Counted(book, q, t, c)]
    OBVIOUS
  <2>3. value[t] = SumFunctionOnSet(h, C)
    <3>1. value[t] = SumFunction(h)
      BY <1>5, <2>1, <2>2
    <3> QED
      BY <2>2, <3>1 DEF SumFunction
  <2>4. PICK T : T = Group(P, k, t)
    OBVIOUS
  <2>5. PICK j : j = [c \in C |-> <<t, c>>]
    OBVIOUS
  <2>6. t \in Seen(book, u, q)
    BY <1>3
  <2>7. ASSUME NEW c \in C
        PROVE  j[c] = <<t, c>> /\ j[c] \in T /\ F[j[c]] = h[c] /\ h[c] \in Int
    <3>1. <<t, c>> \in P /\ F[<<t, c>>] = Counted(book, q, t, c) /\ Counted(book, q, t, c) \in Int
      BY <1>1, <2>1, <2>6, SeenLine
    <3> QED
      BY <1>9, <2>2, <2>4, <2>5, <3>1 DEF Group
  <2>8. Summable(h, C)
    <3>1. C \subseteq DOMAIN book.parents
      BY <2>1, <2>6 DEF Kept, Seen, VisibleTransactions
    <3>2. IsFiniteSet(C)
      BY <3>1, FS_Subset DEF Kept
    <3> QED
      BY <2>7, <3>2 DEF Summable
  <2>9. \A x, y \in C : j[x] = j[y] => x = y
    BY <2>7
  <2>10. \A p \in T : \E c \in C : p = j[c]
    <3> TAKE p \in T
    <3>1. p \in P /\ p[1] = t
      BY <1>9, <2>4 DEF Group
    <3>2. p = <<t, p[2]>> /\ p[2] \in C
      BY <1>1, <2>1, <3>1, SeenLine
    <3> QED
      BY <2>5, <3>2
  <2>11. SumFunctionOnSet(F, T) = SumFunctionOnSet(h, C)
    BY <2>7, <2>8, <2>9, <2>10, SumReindexed
  <2> QED
    BY <2>3, <2>4, <2>11
<1>12. SumFunctionOnSet(value, S) = SumFunctionOnSet(F, P)
  BY <1>2, <1>8, <1>10, <1>11, SumOfGroups
<1>13. Summable(value, S)
  <2>1. ASSUME NEW t \in S PROVE value[t] \in Int
    <3>1. PICK T : T = Group(P, k, t)
      OBVIOUS
    <3>2. Summable(F, T)
      BY <1>2, <3>1, PartSummable DEF Group
    <3>3. value[t] = SumFunctionOnSet(F, T)
      BY <1>11, <3>1
    <3> QED
      BY <3>2, <3>3, SumInt
  <2> QED
    BY <1>8, <2>1 DEF Summable
<1>14. PICK E, pad : E = Span(q, bucket) /\ pad = Padded(rows, q, bucket)
  OBVIOUS
<1>15. ASSUME NEW t \in S PROVE start[t] \in E
  <2>1. PICK d : d = book.transactions[t].day
    OBVIOUS
  <2>2. d \in CalendarDates /\ NotAfter(q.first, d) /\ NotAfter(d, q.last)
    BY <1>3, <2>1 DEF Kept, Seen, VisibleTransactions
  <2>3. PICK b : b = BucketBounds(d, bucket)
    OBVIOUS
  <2>4. PICK a : a = BucketBounds(q.first, bucket)
    OBVIOUS
  <2>5. /\ b.first \in CalendarDates /\ b.last \in CalendarDates
        /\ Ordinal(b.first) <= Ordinal(d) /\ Ordinal(d) <= Ordinal(b.last)
        /\ \A e \in CalendarDates :
             Ordinal(b.first) <= Ordinal(e) /\ Ordinal(e) <= Ordinal(b.last) =>
               BucketBounds(e, bucket) = b
        /\ start[t] = b.first
    BY <1>4, <2>1, <2>2, <2>3, BucketOf
  <2>6. /\ a.first \in CalendarDates /\ Ordinal(a.first) <= Ordinal(q.first)
        /\ Ordinal(q.first) <= Ordinal(a.last) /\ a.last \in CalendarDates
        /\ \A e \in CalendarDates :
             Ordinal(a.first) <= Ordinal(e) /\ Ordinal(e) <= Ordinal(a.last) =>
               BucketBounds(e, bucket) = a
    BY <2>4, BucketOf
  <2>7. /\ Ordinal(d) \in Int /\ Ordinal(b.first) \in Int /\ Ordinal(b.last) \in Int
        /\ Ordinal(q.first) \in Int /\ Ordinal(q.last) \in Int /\ Ordinal(a.first) \in Int
        /\ Ordinal(a.last) \in Int
    BY <2>2, <2>5, <2>6, OrdinalInt
  <2>8. BucketBounds(b.first, bucket) = b
    <3>1. Ordinal(b.first) <= Ordinal(b.first) /\ Ordinal(b.first) <= Ordinal(b.last)
      BY <2>5, <2>7
    <3> QED
      BY <2>5, <3>1
  <2>9. NotAfter(b.first, q.last)
    BY <2>2, <2>5, <2>7 DEF NotAfter
  <2>10. ~(Ordinal(b.first) < Ordinal(a.first))
    <3> SUFFICES ASSUME Ordinal(b.first) < Ordinal(a.first) PROVE FALSE
      OBVIOUS
    <3>1. Ordinal(b.first) <= Ordinal(q.first) /\ Ordinal(q.first) <= Ordinal(b.last)
      BY <2>2, <2>5, <2>6, <2>7 DEF NotAfter
    <3>2. a = b
      BY <2>4, <2>5, <3>1
    <3> QED
      BY <2>7, <3>2
  <2>11. Ordinal(a.first) <= Ordinal(b.first)
    BY <2>7, <2>10
  <2> QED
    BY <1>14, <2>4, <2>5, <2>8, <2>9, <2>11 DEF Span, Heads
<1>16. ASSUME NEW e \in E PROVE pad[e] = SumFunctionOnSet(value, Group(S, start, e))
  <2>1. pad[e] = IF e \in DOMAIN rows THEN rows[e] ELSE 0
    BY <1>14 DEF Padded
  <2>2. CASE e \in DOMAIN rows
    BY <1>7, <2>1, <2>2
  <2>3. CASE e \notin DOMAIN rows
    <3>1. Group(S, start, e) = {}
      <4> SUFFICES ASSUME NEW t \in S, start[t] = e PROVE FALSE
        BY DEF Group
      <4>1. e \in Range(start)
        BY <1>4 DEF Range
      <4> QED
        BY <1>7, <2>3, <4>1
    <3> QED
      BY <2>1, <2>3, <3>1, SumEmpty
  <2> QED
    BY <2>2, <2>3
<1>17. IsFiniteSet(E)
  BY <1>14, SpanFinite
<1>18. SumFunctionOnSet(pad, E) = SumFunctionOnSet(value, S)
  <2>1. \A e \in E : pad[e] = SumFunctionOnSet(value, Group(S, start, e))
    BY <1>16
  <2>2. \A t \in S : start[t] \in E
    BY <1>15
  <2> QED
    BY <1>13, <1>17, <2>1, <2>2, SumOfGroups
<1>19. \A e \in DOMAIN rows : rows[e] \in Int
  <2> TAKE e \in DOMAIN rows
  <2>1. PICK T : T = Group(S, start, e)
    OBVIOUS
  <2>2. Summable(value, T)
    BY <1>13, <2>1, PartSummable DEF Group
  <2>3. rows[e] = SumFunctionOnSet(value, T)
    BY <1>7, <2>1
  <2> QED
    BY <2>2, <2>3, SumInt
<1>20. SumFunction([p \in DenseSeries(rows, q, bucket) |-> p.total]) = SumFunctionOnSet(pad, E)
  BY <1>14, <1>19, SeriesTotal
<1>21. Trend(book, u, q, bucket) = DenseSeries(rows, q, bucket)
  BY <1>6 DEF Trend
<1> QED
  BY <1>1, <1>12, <1>18, <1>20, <1>21

\* And so does the top level, the totals of the children added to their parents'.
LEMMA RolledUpTotal ==
  ASSUME NEW own, NEW parents, Summable(own, DOMAIN parents), CanRollUp(parents),
         Null \notin DOMAIN parents,
         \A c \in DOMAIN parents : parents[c] # Null => parents[c] \in DOMAIN parents,
         NEW top, top = {c \in DOMAIN parents : parents[c] = Null}
  PROVE  SumFunctionOnSet(RollUp(own, parents), top) = SumFunctionOnSet(own, DOMAIN parents)
<1>1. PICK D : D = DOMAIN parents
  OBVIOUS
<1>2. PICK k : k = [c \in D |-> IF parents[c] = Null THEN c ELSE parents[c]]
  OBVIOUS
<1>3. PICK rolled : rolled = RollUp(own, parents)
  OBVIOUS
<1>4. \A c \in D : k[c] \in top
  BY <1>1, <1>2 DEF CanRollUp
<1>5. Summable(own, D) /\ IsFiniteSet(top)
  BY <1>1, FS_Subset DEF Summable
<1>6. ASSUME NEW i \in top
      PROVE  rolled[i] = SumFunctionOnSet(own, Group(D, k, i))
  <2>1. i \in D /\ parents[i] = Null /\ i # Null
    BY <1>1
  <2>2. PICK kids : kids = {c \in D : parents[c] = i}
    OBVIOUS
  <2>3. rolled[i] = own[i] + SumFunctionOnSet(own, kids)
    BY <1>1, <1>3, <2>1, <2>2 DEF RollUp
  <2>4. i \notin kids /\ Group(D, k, i) = kids \cup {i}
    BY <1>2, <2>1, <2>2 DEF Group
  <2>5. Summable(own, kids) /\ own[i] \in Int
    <3>1. kids \subseteq D
      BY <2>2
    <3> QED
      BY <1>5, <2>1, <3>1, PartSummable DEF Summable
  <2>6. SumFunctionOnSet(own, kids \cup {i}) = own[i] + SumFunctionOnSet(own, kids)
    BY <2>4, <2>5, SumAdd
  <2> QED
    BY <2>3, <2>4, <2>6
<1>7. SumFunctionOnSet(rolled, top) = SumFunctionOnSet(own, D)
  BY <1>4, <1>5, <1>6, SumOfGroups
<1> QED
  BY <1>1, <1>3, <1>7

-----------------------------------------------------------------------------
(* The reports of the books there are.                                      *)

\* What the reports follow from a row is there: the categories of the lines of
\* a transaction, the category of a budget.
RefsInv ==
  /\ \A t \in There(transactions) : DOMAIN transactions[t].lines \subseteq There(categories)
  /\ \A b \in There(budgets) : budgets[b].category \in There(categories)

LEMMA RefsInit == Init => RefsInv
  BY DEF Init, RefsInv

LEMMA RefsKept ==
  ASSUME RefsInv, There(categories) \subseteq There(categories)',
         UNCHANGED transactions,
         \A b \in There(budgets)' : b \in There(budgets) /\ budgets'[b] = budgets[b]
  PROVE  RefsInv'
  BY DEF RefsInv, There

LEMMA WriteCategoryRefs ==
  ASSUME TypeInv, RefsInv, NEW r \in Requests, WriteCategory(r)
  PROVE  RefsInv'
<1>0. /\ request \in [Requests -> RequestState]
      /\ categories \in [Categories -> Categories \cup {Null, Fresh, Gone}]
  BY DEF TypeInv, TypeOK
<1>1. UNCHANGED <<transactions, budgets>>
  BY DEF WriteCategory, Refused
<1>2. There(categories) \subseteq There(categories)'
  <2>1. CASE Refused(r)
    BY <2>1 DEF Refused, There
  <2>2. CASE ~Refused(r)
    <3>1. PICK c : categories' = [categories EXCEPT ![c] = request[r].parent]
      BY <2>2 DEF WriteCategory
    <3>2. request[r].parent \in Categories \cup {Null}
      BY <1>0, RequestShape DEF WriteCategory
    <3>3. request[r].parent \notin {Fresh, Gone}
      BY <3>2, BookkeepingConstants
    <3> QED
      BY <1>0, <3>1, <3>3 DEF There
  <2> QED
    BY <2>1, <2>2
<1> QED
  BY <1>1, <1>2, RefsKept DEF There

LEMMA DeleteCategoryRefs ==
  ASSUME TypeInv, RefsInv, NEW r \in Requests, DeleteCategory(r)
  PROVE  RefsInv'
<1>0. categories \in [Categories -> Categories \cup {Null, Fresh, Gone}]
  BY DEF TypeInv, TypeOK
<1>1. PICK c \in There(categories) :
        ~OnALine(c) /\ ~Budgeted(c) /\ categories' = [categories EXCEPT ![c] = Gone]
  BY DEF DeleteCategory
<1>2. There(categories) \ {c} \subseteq There(categories)'
  BY <1>0, <1>1 DEF There
<1>3. UNCHANGED <<transactions, budgets>>
  BY DEF DeleteCategory
<1>4. There(transactions)' = There(transactions) /\ There(budgets)' = There(budgets)
  BY <1>3 DEF There
<1>5. /\ \A t \in There(transactions) : c \notin DOMAIN transactions[t].lines
      /\ \A b \in There(budgets) : budgets[b].category # c
  BY <1>1 DEF OnALine, Budgeted
<1> QED
  BY <1>2, <1>3, <1>4, <1>5 DEF RefsInv

LEMMA WriteBudgetRefs ==
  ASSUME TypeInv, RefsInv, NEW r \in Requests, WriteBudget(r)
  PROVE  RefsInv'
<1>0. /\ budgets \in [Budgets -> BudgetRow \cup {Fresh, Gone}]
      /\ request \in [Requests -> RequestState]
  BY DEF TypeInv, TypeOK
<1>1. CASE Refused(r)
  BY <1>1, RefsKept DEF Refused, There
<1>2. CASE ~Refused(r)
  <2> DEFINE changes == request[r].changes
  <2>1. PICK b \in Target(budgets, request[r].budget) :
          /\ request[r].budget # Null => b \in There(budgets)
          /\ "category" \in DOMAIN changes => CategoryExists(changes.category)
          /\ budgets' = [budgets EXCEPT ![b] =
                 IF budgets[b] = Fresh THEN changes ELSE Changed(budgets[b], changes)]
          /\ UNCHANGED <<categories, transactions>>
    BY <1>2 DEF WriteBudget
  <2>2. /\ request[r].budget = Null => DOMAIN changes = DOMAIN BudgetFields
        /\ changes \in BudgetChanges
    <3>1. request[r].at = "budgeted"
      BY DEF WriteBudget
    <3>2. request[r] \in [at : {"budgeted"}, budget : Budgets \cup {Null},
            changes : BudgetChanges, checked : Accounts \cup {Null}, late : BOOLEAN]
      BY <1>0, <3>1, RequestShape
    <3> QED
      BY <3>1, <3>2 DEF TypeInv, FullPosts
  <2>3. b \in Budgets
    BY <1>0, <2>1 DEF Target, There
  <2>4. budgets'[b].category \in There(categories)
    <3>1. CASE budgets[b] = Fresh
      <4>1. request[r].budget = Null
        BY <2>1, <3>1 DEF There
      <4>2. "category" \in DOMAIN changes
        BY <2>2, <4>1 DEF BudgetFields
      <4>3. budgets'[b] = changes
        BY <1>0, <2>1, <2>3, <3>1
      <4> QED
        BY <2>1, <4>2, <4>3 DEF CategoryExists
    <3>2. CASE budgets[b] # Fresh
      <4>1. b \in There(budgets)
        BY <2>1, <3>2 DEF Target
      <4>2. budgets[b] \in BudgetRow /\ budgets[b].category \in There(categories)
        BY <1>0, <2>3, <4>1 DEF There, RefsInv
      <4>3. budgets'[b] = Changed(budgets[b], changes)
        BY <1>0, <2>1, <2>3, <3>2
      <4>4. budgets'[b].category =
              IF "category" \in DOMAIN changes THEN changes.category ELSE budgets[b].category
        BY <4>2, <4>3 DEF Changed, BudgetRow
      <4> QED
        BY <2>1, <4>2, <4>4 DEF CategoryExists
    <3> QED
      BY <3>1, <3>2
  <2>5. \A k \in There(budgets)' : k # b => k \in There(budgets) /\ budgets'[k] = budgets[k]
    BY <1>0, <2>1 DEF There
  <2>6. /\ There(categories)' = There(categories)
        /\ There(transactions)' = There(transactions) /\ transactions' = transactions
    BY <2>1 DEF There
  <2> QED
    BY <2>4, <2>5, <2>6 DEF RefsInv
<1> QED
  BY <1>1, <1>2

LEMMA PostRefs ==
  ASSUME TypeInv, RefsInv, NEW r \in Requests, PostTransaction(r)
  PROVE  RefsInv'
<1>0. transactions \in [Transactions -> Bills \cup {Fresh}]
  BY DEF TypeInv, TypeOK
<1>1. PICK t \in Target(transactions, Null), bill \in Bills :
        /\ DOMAIN bill.lines \subseteq There(categories)
        /\ transactions' = [transactions EXCEPT ![t] = bill]
  BY DEF PostTransaction
<1>2. t \in Transactions
  BY <1>0, <1>1 DEF Target
<1>3. UNCHANGED <<categories, budgets>>
  BY DEF PostTransaction
<1>4. There(categories)' = There(categories) /\ There(budgets)' = There(budgets)
  BY <1>3 DEF There
<1>5. ASSUME NEW k \in There(transactions)'
      PROVE  DOMAIN transactions'[k].lines \subseteq There(categories)
  <2>1. CASE k = t
    BY <1>0, <1>1, <1>2, <2>1
  <2>2. CASE k # t
    BY <1>0, <1>1, <2>2 DEF There, RefsInv
  <2> QED
    BY <2>1, <2>2
<1> QED
  BY <1>3, <1>4, <1>5 DEF RefsInv

LEMMA RefsStep == TypeInv /\ RefsInv /\ [Next]_vars => RefsInv'
<1> SUFFICES ASSUME TypeInv, RefsInv, [Next]_vars PROVE RefsInv'
  OBVIOUS
<1>1. ASSUME UNCHANGED <<categories, transactions, budgets>> PROVE RefsInv'
  BY <1>1 DEF RefsInv, There
<1>2. ASSUME NEW r \in Requests,
             \/ VetCategory(r) \/ LookForChildren(r) \/ CreateAccount(r) \/ UpdateAccount(r)
             \/ CheckBudget(r) \/ QuoteTransfer(r) \/ CreateTransfer(r) \/ DeleteTransfer(r)
      PROVE  UNCHANGED <<categories, transactions, budgets>>
  BY <1>2 DEF VetCategory, LookForChildren, CreateAccount, UpdateAccount, CheckBudget,
              QuoteTransfer, CreateTransfer, DeleteTransfer, Proceed, Refused
<1>3. ASSUME NEW r \in Requests, DeleteBudget(r) PROVE RefsInv'
  <2>1. PICK b : budgets' = [budgets EXCEPT ![b] = Gone]
    BY <1>3 DEF DeleteBudget
  <2>2. budgets \in [Budgets -> BudgetRow \cup {Fresh, Gone}]
    BY DEF TypeInv, TypeOK
  <2>3. \A k \in There(budgets)' : k \in There(budgets) /\ budgets'[k] = budgets[k]
    BY <2>1, <2>2 DEF There
  <2>4. UNCHANGED <<categories, transactions>>
    BY <1>3 DEF DeleteBudget
  <2> QED
    BY <2>3, <2>4, RefsKept DEF There
<1>4. CASE UNCHANGED vars
  BY <1>1, <1>4 DEF vars
<1>5. CASE Next
  BY <1>1, <1>2, <1>3, <1>5, WriteCategoryRefs, DeleteCategoryRefs, WriteBudgetRefs, PostRefs
  DEF Next
<1> QED
  BY <1>4, <1>5

\* The books the reports are made from.
LEMMA BookKept ==
  ASSUME TypeInv, TreeInv, RefsInv
  PROVE  /\ Kept(Book) /\ DOMAIN Book.parents = There(categories)
         /\ \A c \in There(categories) : Book.parents[c] = categories[c]
         /\ \A c \in There(categories) :
               Book.parents[c] # Null => Book.parents[c] \in There(categories)
         /\ Null \notin There(categories)
<1>0. /\ categories \in [Categories -> Categories \cup {Null, Fresh, Gone}]
      /\ transactions \in [Transactions -> Bills \cup {Fresh}]
  BY DEF TypeInv, TypeOK
<1>1. /\ DOMAIN Book.parents = There(categories)
      /\ \A c \in There(categories) : Book.parents[c] = categories[c]
      /\ DOMAIN Book.transactions = There(transactions)
      /\ \A t \in There(transactions) : Book.transactions[t] = transactions[t]
  BY DEF Book, Rows, Restrict
<1>2. IsFiniteSet(There(categories)) /\ IsFiniteSet(There(transactions))
  <2>1. There(categories) \subseteq Categories /\ There(transactions) \subseteq Transactions
    BY <1>0 DEF There
  <2> QED
    BY <2>1, FS_Subset, BookkeepingConstants
<1>3. ASSUME NEW t \in There(transactions)
      PROVE  /\ transactions[t].day \in CalendarDates
             /\ DOMAIN transactions[t].lines \subseteq There(categories)
             /\ \A c \in DOMAIN transactions[t].lines : transactions[t].lines[c] \in Int
  <2>1. transactions[t] \in Bills
    BY <1>0 DEF There
  <2> QED
    BY <2>1, BookkeepingConstants DEF RefsInv
<1>4. Kept(Book)
  BY <1>1, <1>2, <1>3 DEF Kept
<1>5. Null \notin There(categories)
  BY <1>0, BookkeepingConstants DEF There
<1> QED
  BY <1>1, <1>4, <1>5 DEF TreeInv, ParentsThere, ParentExists

LEMMA ReportsFollow ==
  ASSUME TypeInv, TreeInv, RefsInv
  PROVE  ReportsAgree
<1> SUFFICES ASSUME CanRollUp(Rows(categories)), NEW u \in Users
             PROVE  /\ \A q \in Queries : RollUpKeeps(u, q) /\ TrendKeeps(u, q)
                    /\ \A b \in VisibleBudgets(u) :
                        BudgetSpent(Book, u, budgets[b], Today) =
                            CategoryTotals(Book, u, BudgetQuery(b))[budgets[b].category]
  BY DEF ReportsAgree
<1>1. PICK book : book = Book
  OBVIOUS
<1>2. PICK there : there = There(categories)
  OBVIOUS
<1>3. /\ Kept(book) /\ DOMAIN book.parents = there
      /\ \A c \in there : book.parents[c] = categories[c]
      /\ \A c \in DOMAIN book.parents :
            book.parents[c] # Null => book.parents[c] \in DOMAIN book.parents
      /\ Null \notin DOMAIN book.parents
  BY <1>1, <1>2, BookKept
<1>4. CanRollUp(book.parents)
  BY <1>1 DEF Book
<1>5. ASSUME NEW q \in Queries PROVE RollUpKeeps(u, q)
  <2>1. PICK own : own = CategoryTotals(book, u, q)
    OBVIOUS
  <2>2. PICK top : top = {c \in DOMAIN book.parents : book.parents[c] = Null}
    OBVIOUS
  <2>3. top = {c \in There(categories) : categories[c] = Null}
    BY <1>2, <1>3, <2>2
  <2>4. DOMAIN own = DOMAIN book.parents /\ Summable(own, DOMAIN book.parents)
    BY <1>3, <2>1, BreakdownTotal
  <2>5. SumFunctionOnSet(RollUp(own, book.parents), top)
          = SumFunctionOnSet(own, DOMAIN book.parents)
    BY <1>3, <1>4, <2>2, <2>4, RolledUpTotal
  <2> QED
    BY <1>1, <2>1, <2>3, <2>4, <2>5 DEF RollUpKeeps, SumFunction
<1>6. ASSUME NEW q \in Queries PROVE TrendKeeps(u, q)
  <2> SUFFICES ASSUME NEW bucket \in Buckets
               PROVE  SumFunction([p \in Trend(book, u, q, bucket) |-> p.total]) =
                        SumFunction(CategoryTotals(book, u, q))
    BY <1>1 DEF TrendKeeps
  <2>1. q.first \in CalendarDates /\ q.last \in CalendarDates
    BY BookkeepingConstants
  <2> QED
    BY <1>3, <2>1, BreakdownTotal, TrendTotal
<1>7. ASSUME NEW b \in VisibleBudgets(u)
      PROVE  BudgetSpent(Book, u, budgets[b], Today) =
               CategoryTotals(Book, u, BudgetQuery(b))[budgets[b].category]
  <2>1. budgets[b].category \in DOMAIN book.parents
    BY <1>2, <1>3 DEF VisibleBudgets, RefsInv
  <2>2. PICK row : row = budgets[b]
    OBVIOUS
  <2>3. PICK q : q = [first |-> MonthBounds(Today).first, last |-> MonthBounds(Today).last,
                      currency |-> row.currency, type |-> "expense", account |-> row.account]
    OBVIOUS
  <2>4. /\ q.first = MonthBounds(Today).first /\ q.last = MonthBounds(Today).last
        /\ q.currency = row.currency /\ q.type = "expense" /\ q.account = row.account
        /\ q = BudgetQuery(b)
    BY <2>2, <2>3 DEF BudgetQuery
  <2>5. VisibleTransactions(book, u, q.account, q.first, q.last) =
          {t \in VisibleTransactions(book, u, Null, q.first, q.last) :
              row.account \in {Null, book.transactions[t].account}}
    BY <2>4 DEF VisibleTransactions
  <2>6. \A t, amount : BudgetAmount(book, book.transactions[t], row, amount) =
                       BreakdownAmount(book, book.transactions[t], q, amount)
    BY <2>4 DEF BudgetAmount, BreakdownAmount
  <2>7. BudgetSpent(book, u, row, Today) = CategoryTotals(book, u, q)[row.category]
    <3>1. PICK spent : spent = {t \in VisibleTransactions(book, u, q.account, q.first, q.last) :
                                   row.category \in DOMAIN book.transactions[t].lines}
      OBVIOUS
    <3>2. PICK f : f = [t \in spent |-> BreakdownAmount(book, book.transactions[t], q,
                                           book.transactions[t].lines[row.category])]
      OBVIOUS
    <3>3. CategoryTotals(book, u, q)[row.category] = SumFunction(f)
      BY <2>1, <2>2, <3>1, <3>2 DEF CategoryTotals
    <3>4. f = [t \in spent |-> BudgetAmount(book, book.transactions[t], row,
                                           book.transactions[t].lines[row.category])]
      BY <2>6, <3>2
    <3>5. BudgetSpent(book, u, row, Today) = SumFunction(f)
      BY <2>4, <2>5, <3>1, <3>4 DEF BudgetSpent
    <3> QED
      BY <3>3, <3>5
  <2> QED
    BY <1>1, <2>2, <2>4, <2>7
<1> QED
  BY <1>5, <1>6, <1>7

\* The breakdown, its top level, the trend by any bucket and the budgets tell
\* the same sums (backend/app/reports and budgets/queries.py), for any books
\* of two levels, any bills, queries and users, and any dates.
THEOREM OneStory == Spec => []ReportsAgree
<1>1. Init => TypeInv /\ TreeInv /\ RefsInv
  BY TypeInit, TreeInit, RefsInit
<1>2. TypeInv /\ TreeInv /\ RefsInv /\ [Next]_vars => (TypeInv /\ TreeInv /\ RefsInv)'
  BY TypeStep, TreeStep, RefsStep
<1>3. TypeInv /\ TreeInv /\ RefsInv => ReportsAgree
  BY ReportsFollow
<1> QED
  BY <1>1, <1>2, <1>3, PTL DEF Spec
=============================================================================
