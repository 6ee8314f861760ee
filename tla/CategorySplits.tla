--------------------------- MODULE CategorySplits ---------------------------
(***************************************************************************)
(* Amounts and their category splits: transactions, templates and          *)
(* recurrences (backend/app/transactions, templates and recurring), which  *)
(* repeat one scheme.  A PATCH reads the entry and validates against what  *)
(* it read, deletes the old lines, inserts the new ones and commits: four  *)
(* statements under READ COMMITTED, with only the locks those statements   *)
(* take.  Deletes, a template being applied, a recurrence being posted,    *)
(* the receipt of a transaction and the deletion of a category run beside. *)
(*                                                                         *)
(* A request sends amounts of any precision and is checked on them; the    *)
(* columns are numeric(18,2).  Money is counted in half cents here, so     *)
(* that what a column can hold is even.                                    *)
(***************************************************************************)
EXTENDS Naturals, FiniteSets, Functions

CONSTANTS
    Transactions, \* ids a transaction may get; one is never given twice
    Templates,
    Recurrences,
    Categories,
    Requests,     \* HTTP requests, each made at most once
    Amounts,      \* amounts a request may send, in half cents
    Null, Gone

Entries == Transactions \cup Templates \cup Recurrences

ASSUME SplitsConstants ==
    /\ Amounts \subseteq Nat /\ IsFiniteSet(Categories)
    /\ Transactions \cap (Templates \cup Recurrences) = {}
    /\ Templates \cap Recurrences = {}
    /\ {Null, Gone} \cap (Entries \cup Requests \cup Categories \cup Nat) = {}
    /\ Null # Gone

VARIABLES
    entries,      \* the three tables: a row, or Null before and Gone after
    lines,        \* rows of the three split tables
    categories,   \* the rows of category
    request,      \* how far each request is
    tickets,      \* transactions a presigned upload is valid for
    objects,      \* transactions with a receipt in the bucket
    disturbed     \* history: entries whose last write was not a calm one

vars == <<entries, lines, categories, request, tickets, objects, disturbed>>

\* What numeric(18,2) makes of an amount: halves are rounded up.
Stored(a) == IF a % 2 = 0 THEN a ELSE a + 1
\* What it can hold; 0.01 is the amount of a draft.
Column == {Stored(a) : a \in Amounts \cup {2}} \ {0}

TransactionRow == [amount : Column, draft : BOOLEAN, photo : BOOLEAN]
TemplateRow == [amount : Column]
RecurringRow == [amount : Column]

ASSUME RowsAreThere ==
    {Null, Gone} \cap (TransactionRow \cup TemplateRow \cup RecurringRow) = {}

\* by is the request that wrote the line, and stands for its id.
Line == [entry : Entries, category : Categories, amount : Column,
         by : Requests \cup {Null}]
LinesOf(e) == {l \in lines : l.entry = e}
Sum(ls) == SumFunction([l \in ls |-> l.amount])

\* The splits of a request body: distinct categories, each with an amount.
Body == UNION {[cs -> Amounts] : cs \in SUBSET Categories}
Total(body) == SumFunction(body)

\* read is the amount the request found; old the lines its DELETE took.
RequestState ==
    [at : {"new", "checked", "waiting", "ready", "applying", "attaching",
           "removing", "cleaning", "done"},
     entry : Entries \cup {Null}, amount : Amounts \cup {Null},
     body : Body \cup {Null}, read : Column \cup {Null},
     old : SUBSET Line, overlapped : BOOLEAN]
New == [at |-> "new", entry |-> Null, amount |-> Null, body |-> Null,
        read |-> Null, old |-> {}, overlapped |-> FALSE]

Exists(e) == entries[e] \notin {Null, Gone}
\* visible_transactions leaves the drafts out.
Visible(e) == Exists(e) /\ (e \in Transactions => ~entries[e].draft)

Balanced(e) == LinesOf(e) = {} \/ Sum(LinesOf(e)) = entries[e].amount

-----------------------------------------------------------------------------
(* Shared by the three tables.                                             *)

Keep(r) == request[r].entry
End(r) == request' = [request EXCEPT ![r] = [New EXCEPT !.at = "done"]]

\* The validation of the splits of a request, on the amount it has at hand.
Fits(body, amount) == DOMAIN body \subseteq categories
                      /\ (DOMAIN body # {} => Total(body) = amount)
\* The CHECKs of the columns.
Positive(body) == \A c \in DOMAIN body : Stored(body[c]) > 0
LinesFrom(r, e, body) ==
    {[entry |-> e, category |-> c, amount |-> Stored(body[c]), by |-> r] :
        c \in DOMAIN body}

\* Amounts the columns cannot hold as they were sent.
Fine(amount, body) ==
    amount # Stored(amount) \/ \E c \in DOMAIN body : body[c] # Stored(body[c])

\* An INSERT of an entry and its lines.
Insert(r, e, row, body) ==
    /\ entries[e] = Null
    /\ row.amount > 0 /\ Positive(body)
    /\ entries' = [entries EXCEPT ![e] = row]
    /\ lines' = lines \cup LinesFrom(r, e, body)

\* The lock that a DELETE of a row, or of its lines, holds until its commit.
RowLocked(e) == \E r \in Requests : request[r].at = "removing" /\ Keep(r) = e
LineLocked(l) ==
    \E r \in Requests : request[r].at = "ready" /\ l \in request[r].old

\* A PATCH that names splits is checked on the amount it read, even when it
\* names an amount too; one that names only an amount on the lines it finds.
Check(r, e) ==
    /\ request[r].at = "new" /\ Visible(e)
    /\ \E amount \in Amounts \cup {Null}, body \in Body \cup {Null} :
        /\ amount # Null \/ body # Null
        /\ IF body # Null THEN Fits(body, entries[e].amount)
           ELSE LinesOf(e) = {} \/ Sum(LinesOf(e)) = amount
        /\ request' = [request EXCEPT ![r] =
              [New EXCEPT !.at = IF body # Null THEN "checked" ELSE "ready",
                          !.entry = e, !.amount = amount, !.body = body,
                          !.read = entries[e].amount]]
    /\ UNCHANGED <<entries, lines, categories, tickets, objects, disturbed>>

\* The DELETE sees the lines of its start, and waits for those that another
\* request has deleted or is about to.
DeleteLines(r) ==
    /\ request[r].at = "checked"
    /\ request' = [request EXCEPT ![r].at = "waiting", ![r].old = LinesOf(Keep(r))]
    /\ UNCHANGED <<entries, lines, categories, tickets, objects, disturbed>>

LockLines(r) ==
    /\ request[r].at = "waiting"
    /\ ~\E l \in request[r].old : LineLocked(l)
    /\ request' = [request EXCEPT ![r].at = "ready",
                                  ![r].old = @ \cap lines]
    /\ UNCHANGED <<entries, lines, categories, tickets, objects, disturbed>>

\* What the constraints of the tables refuse when the new lines and the new
\* amount are written: the request fails and its transaction is rolled back.
Refused(r) ==
    LET q == request[r] IN
    \/ ~Exists(q.entry)
    \/ q.amount # Null /\ Stored(q.amount) = 0
    \/ q.body # Null /\ \/ ~(DOMAIN q.body \subseteq categories)
                        \/ ~Positive(q.body)
                        \/ \E l \in LinesOf(q.entry) \ q.old :
                               l.category \in DOMAIN q.body

\* An amount equal to the one read is no change to the session.
NewAmount(r) == request[r].amount \notin {Null, request[r].read}

\* Mutant: splits are added to those there are.
NewLinesAdded(r) ==
    IF request[r].body = Null THEN lines
    ELSE lines \cup LinesFrom(r, Keep(r), request[r].body)

NewLines(r) ==
    IF request[r].body = Null THEN lines
    ELSE (lines \ request[r].old) \cup LinesFrom(r, Keep(r), request[r].body)

\* A calm PATCH overlaps no other write of its entry, sends amounts the
\* columns can hold, and does not move the amount under the splits it sends.
Calm(r) ==
    LET q == request[r] IN
    /\ ~q.overlapped
    /\ q.amount # Null => Stored(q.amount) = q.amount
    /\ q.body # Null => /\ \A c \in DOMAIN q.body : Stored(q.body[c]) = q.body[c]
                        /\ DOMAIN q.body = {} \/ q.amount \in {Null, q.read}

\* The request has committed; the others at work on the entry have met it.
Committed(r, after) ==
    request' = [q \in Requests |->
        IF q = r THEN after
        ELSE IF request[q].entry = Keep(r)
             THEN [request[q] EXCEPT !.overlapped = TRUE]
             ELSE request[q]]

Write(r) ==
    /\ request[r].at = "ready" /\ ~RowLocked(Keep(r)) /\ ~Refused(r)
    /\ lines' = NewLines(r)
    /\ entries' = IF NewAmount(r)
                  THEN [entries EXCEPT ![Keep(r)].amount = Stored(request[r].amount)]
                  ELSE entries
    /\ disturbed' = IF Calm(r) THEN disturbed \ {Keep(r)}
                    ELSE disturbed \cup {Keep(r)}
    /\ Committed(r, [New EXCEPT !.at = "done"])
    /\ UNCHANGED <<categories, tickets, objects>>

Fail(r) ==
    /\ request[r].at = "ready" /\ ~RowLocked(Keep(r)) /\ Refused(r)
    /\ End(r)
    /\ UNCHANGED <<entries, lines, categories, tickets, objects, disturbed>>

\* Mutant: the receipt is deleted before the row is.
LockRowAfterObject(r, e) ==
    /\ request[r].at = "new" /\ Exists(e) /\ ~RowLocked(e)
    /\ request' = [request EXCEPT ![r] = [New EXCEPT !.at = "removing", !.entry = e]]
    /\ objects' = objects \ {e}
    /\ UNCHANGED <<entries, lines, categories, tickets, disturbed>>

\* A DELETE locks the row; its cascade needs the lines.
LockRow(r, e) ==
    /\ request[r].at = "new" /\ Exists(e) /\ ~RowLocked(e)
    /\ request' = [request EXCEPT ![r] = [New EXCEPT !.at = "removing", !.entry = e]]
    /\ UNCHANGED <<entries, lines, categories, tickets, objects, disturbed>>

Remove(r, after) ==
    /\ request[r].at = "removing" /\ ~\E l \in LinesOf(Keep(r)) : LineLocked(l)
    /\ entries' = [entries EXCEPT ![Keep(r)] = Gone]
    /\ lines' = lines \ LinesOf(Keep(r))
    /\ Committed(r, after)
    /\ UNCHANGED <<categories, tickets, objects, disturbed>>

-----------------------------------------------------------------------------
(* Transactions.                                                           *)

CreateTransaction(r) ==
    /\ request[r].at = "new"
    /\ \E t \in Transactions, amount \in Amounts, body \in Body :
        /\ Fits(body, amount)
        /\ Insert(r, t, [amount |-> Stored(amount), draft |-> FALSE,
                         photo |-> FALSE], body)
        /\ disturbed' = IF Fine(amount, body) THEN disturbed \cup {t} ELSE disturbed
    /\ End(r)
    /\ UNCHANGED <<categories, tickets, objects>>

\* Sets the amount first and validates the splits against the new one; a
\* draft has no lines before.
ConfirmFromPhoto(r) ==
    /\ request[r].at = "new"
    /\ \E t \in Transactions, amount \in Amounts, body \in Body :
        /\ Exists(t) /\ entries[t].draft /\ ~RowLocked(t)
        /\ DOMAIN body # {} /\ Fits(body, amount)
        /\ Stored(amount) > 0 /\ Positive(body)
        /\ entries' = [entries EXCEPT ![t].draft = FALSE, ![t].amount = Stored(amount)]
        /\ lines' = lines \cup LinesFrom(r, t, body)
        /\ disturbed' = IF Fine(amount, body) THEN disturbed \cup {t} ELSE disturbed
    /\ End(r)
    /\ UNCHANGED <<categories, tickets, objects>>

UpdateTransaction(r) == \E t \in Transactions : Check(r, t)
ReplaceSplits(r) == Keep(r) \in Transactions /\ (DeleteLines(r) \/ LockLines(r))
CommitTransaction(r) == Keep(r) \in Transactions /\ (Write(r) \/ Fail(r))
DeleteTransaction(r) == \E t \in Transactions : LockRow(r, t)
CommitDelete(r) == Keep(r) \in Transactions /\ Remove(r, [New EXCEPT !.at = "cleaning", !.entry = Keep(r)])

\* After the commit, and never again: the request ends whatever S3 says.
DeleteObject(r) ==
    /\ request[r].at = "cleaning"
    /\ objects' \in {objects, objects \ {Keep(r)}}
    /\ End(r)
    /\ UNCHANGED <<entries, lines, categories, tickets, disturbed>>

RequestUpload(r) ==
    /\ request[r].at = "new"
    /\ \E t \in Transactions : Visible(t) /\ tickets' = tickets \cup {t}
    /\ End(r)
    /\ UNCHANGED <<entries, lines, categories, objects, disturbed>>

\* The browser posts to S3 itself, as often as the ticket lasts.
Upload(t) ==
    /\ t \in tickets
    /\ objects' = objects \cup {t}
    /\ tickets' \in {tickets, tickets \ {t}}
    /\ UNCHANGED <<entries, lines, categories, request, disturbed>>

\* The object is looked for before the row is marked.
ConfirmUpload(r) ==
    /\ request[r].at = "new"
    /\ \E t \in Transactions :
        /\ Visible(t) /\ t \in objects
        /\ request' = [request EXCEPT ![r] = [New EXCEPT !.at = "attaching", !.entry = t]]
    /\ UNCHANGED <<entries, lines, categories, tickets, objects, disturbed>>

MarkPhoto(r) ==
    /\ request[r].at = "attaching" /\ ~RowLocked(Keep(r))
    /\ entries' = IF Exists(Keep(r)) THEN [entries EXCEPT ![Keep(r)].photo = TRUE]
                  ELSE entries
    /\ End(r)
    /\ UNCHANGED <<lines, categories, tickets, objects, disturbed>>

-----------------------------------------------------------------------------
(* Templates.                                                              *)

CreateTemplate(r) ==
    /\ request[r].at = "new"
    /\ \E m \in Templates, amount \in Amounts, body \in Body :
        /\ Fits(body, amount)
        /\ Insert(r, m, [amount |-> Stored(amount)], body)
        /\ disturbed' = IF Fine(amount, body) THEN disturbed \cup {m} ELSE disturbed
    /\ End(r)
    /\ UNCHANGED <<categories, tickets, objects>>

UpdateTemplate(r) == \E m \in Templates : Check(r, m)
ReplaceTemplateSplits(r) == Keep(r) \in Templates /\ (DeleteLines(r) \/ LockLines(r))
CommitTemplate(r) == Keep(r) \in Templates /\ (Write(r) \/ Fail(r))
DeleteTemplate(r) == \E m \in Templates : LockRow(r, m)
CommitDeleteTemplate(r) == Keep(r) \in Templates /\ Remove(r, [New EXCEPT !.at = "done"])

\* The template is read, then its lines, each as they are by then.
ApplyTemplate(r) ==
    /\ request[r].at = "new"
    /\ \E m \in Templates :
        /\ Visible(m)
        /\ request' = [request EXCEPT ![r] =
              [New EXCEPT !.at = "applying", !.entry = m, !.read = entries[m].amount]]
    /\ UNCHANGED <<entries, lines, categories, tickets, objects, disturbed>>

\* A transaction created with stored lines, as create_transaction does.
Post(by, t, amount, ls) ==
    /\ entries[t] = Null
    /\ ls = {} \/ Sum(ls) = amount
    /\ entries' = [entries EXCEPT ![t] =
          [amount |-> amount, draft |-> FALSE, photo |-> FALSE]]
    /\ lines' = lines \cup {[l EXCEPT !.entry = t, !.by = by] : l \in ls}

CommitApply(r) ==
    /\ request[r].at = "applying"
    /\ LET ls == LinesOf(Keep(r)) IN
        \/ \E t \in Transactions : Post(r, t, request[r].read, ls)
        \/ UNCHANGED <<entries, lines>>  \* its account is not visible any more
    /\ End(r)
    /\ UNCHANGED <<categories, tickets, objects, disturbed>>

-----------------------------------------------------------------------------
(* Recurrences.                                                            *)

CreateRecurring(r) ==
    /\ request[r].at = "new"
    /\ \E p \in Recurrences, amount \in Amounts, body \in Body :
        /\ Fits(body, amount)
        /\ Insert(r, p, [amount |-> Stored(amount)], body)
        /\ disturbed' = IF Fine(amount, body) THEN disturbed \cup {p} ELSE disturbed
    /\ End(r)
    /\ UNCHANGED <<categories, tickets, objects>>

UpdateRecurring(r) == \E p \in Recurrences : Check(r, p)
ReplaceRecurringSplits(r) == Keep(r) \in Recurrences /\ (DeleteLines(r) \/ LockLines(r))
CommitRecurring(r) == Keep(r) \in Recurrences /\ (Write(r) \/ Fail(r))
DeleteRecurring(r) == \E p \in Recurrences : LockRow(r, p)
CommitDeleteRecurring(r) == Keep(r) \in Recurrences /\ Remove(r, [New EXCEPT !.at = "done"])

\* An occurrence, posted with the row of its recurrence locked throughout.
PostOccurrence(p) ==
    /\ Exists(p) /\ ~RowLocked(p)
    /\ \E t \in Transactions : Post(Null, t, entries[p].amount, LinesOf(p))
    /\ UNCHANGED <<categories, request, tickets, objects, disturbed>>

-----------------------------------------------------------------------------
(* Around the requests.                                                    *)

\* Mutant: a category goes and leaves its lines.
DeleteCategoryAnyhow(c) ==
    /\ c \in categories
    /\ categories' = categories \ {c}
    /\ UNCHANGED <<entries, lines, request, tickets, objects, disturbed>>

\* ON DELETE RESTRICT: a category goes only when no line names it.
DeleteCategory(c) ==
    /\ c \in categories /\ ~\E l \in lines : l.category = c
    /\ categories' = categories \ {c}
    /\ UNCHANGED <<entries, lines, request, tickets, objects, disturbed>>

\* The function is cut off: what it has not committed is rolled back.
CutOff(r) ==
    /\ request[r].at \notin {"new", "done"}
    /\ End(r)
    /\ UNCHANGED <<entries, lines, categories, tickets, objects, disturbed>>

\* A PATCH that holds lines and waits for the row, and a DELETE that holds
\* the row and waits for the lines: the database ends one of the two.
BreakDeadlock ==
    \E r, q \in Requests :
        /\ request[r].at = "ready" /\ request[q].at = "removing"
        /\ Keep(r) = Keep(q)
        /\ \E l \in LinesOf(Keep(q)) : l \in request[r].old
        /\ End(r) \/ End(q)
        /\ UNCHANGED <<entries, lines, categories, tickets, objects, disturbed>>

\* The tables hold one row at most, in any state past writes can leave it.
Init ==
    /\ \E e \in Entries \cup {Null}, amount \in Column, body \in Body :
        \E draft, photo, uploaded \in BOOLEAN :
            /\ draft \/ uploaded => e \in Transactions
            /\ draft \/ e = Null => DOMAIN body = {} /\ amount = 2
            /\ draft \/ photo => uploaded
            /\ ~(draft /\ photo)
            /\ ~Fine(amount, body) /\ Positive(body)
            /\ entries = [f \in Entries |->
                  IF f # e THEN Null
                  ELSE IF e \in Transactions
                       THEN [amount |-> amount, draft |-> draft, photo |-> photo]
                       ELSE [amount |-> amount]]
            /\ lines = LinesFrom(Null, e, body)
            /\ objects = IF uploaded THEN {e} ELSE {}
            /\ disturbed = IF DOMAIN body = {} \/ Total(body) = amount
                           THEN {} ELSE {e}
    /\ categories = Categories
    /\ request = [r \in Requests |-> New]
    /\ tickets = {}

Start(r) ==
    \/ CreateTransaction(r) \/ ConfirmFromPhoto(r) \/ UpdateTransaction(r)
    \/ DeleteTransaction(r) \/ RequestUpload(r) \/ ConfirmUpload(r)
    \/ CreateTemplate(r) \/ UpdateTemplate(r) \/ DeleteTemplate(r)
    \/ ApplyTemplate(r)
    \/ CreateRecurring(r) \/ UpdateRecurring(r) \/ DeleteRecurring(r)

Continue(r) ==
    \/ ReplaceSplits(r) \/ CommitTransaction(r) \/ CommitDelete(r)
    \/ DeleteObject(r) \/ MarkPhoto(r)
    \/ ReplaceTemplateSplits(r) \/ CommitTemplate(r) \/ CommitDeleteTemplate(r)
    \/ CommitApply(r)
    \/ ReplaceRecurringSplits(r) \/ CommitRecurring(r) \/ CommitDeleteRecurring(r)

Next ==
    \/ \E r \in Requests : Start(r) \/ Continue(r) \/ CutOff(r)
    \/ \E t \in Transactions : Upload(t)
    \/ \E p \in Recurrences : PostOccurrence(p)
    \/ \E c \in Categories : DeleteCategory(c)
    \/ BreakDeadlock

Spec == Init /\ [][Next]_vars
SpecFromBalanced == Init /\ disturbed = {} /\ [][Next]_vars

-----------------------------------------------------------------------------
(* Properties.                                                             *)

\* Rows, lines and requests are well formed, and no line outlives its entry or
\* its category.
TypeOK ==
    /\ DOMAIN entries = Entries
    /\ \A t \in Transactions : entries[t] \in TransactionRow \cup {Null, Gone}
    /\ \A m \in Templates : entries[m] \in TemplateRow \cup {Null, Gone}
    /\ \A p \in Recurrences : entries[p] \in RecurringRow \cup {Null, Gone}
    /\ \A l \in lines : l \in Line /\ Exists(l.entry) /\ l.category \in categories
    /\ categories \subseteq Categories
    /\ request \in [Requests -> RequestState]
    /\ tickets \subseteq Transactions /\ objects \subseteq Transactions
    /\ disturbed \subseteq Entries

\* The lines of an entry sum to its amount (design D22) when its last write was
\* calm: it overlapped no other, was in whole cents, and did not move the amount
\* under the splits it sent.  What the requests check, the lines the DELETE
\* takes, the posting of templates and recurrences and a repair of an entry
\* that was out of balance must together keep it.
CalmEntriesBalanced ==
    \A e \in Entries \ disturbed : Exists(e) => Balanced(e)

\* What transactions/service.py promises of every entry, from tables that keep
\* it: the splits sum exactly to the amount.
SplitsSumToAmount == \A e \in Entries : Exists(e) => Balanced(e)

\* A transaction marked as having a receipt has one in the bucket: the object
\* goes only after the row is gone, whatever uploads and crashes do between.
ReceiptIsThere ==
    \A t \in Transactions : Exists(t) => (entries[t].photo => t \in objects)

=============================================================================
