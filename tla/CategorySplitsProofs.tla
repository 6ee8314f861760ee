----------------------- MODULE CategorySplitsProofs -----------------------
(***************************************************************************)
(* Proofs about CategorySplits: its types, with no line that outlives its  *)
(* entry or its category; that a transaction marked as having a receipt    *)
(* has one in the bucket; and that the lines of an entry sum to its amount *)
(* when its last write was calm.                                           *)
(***************************************************************************)
EXTENDS CategorySplits, ArithmeticProofs, TLAPS

Row(e) == IF e \in Transactions THEN TransactionRow ELSE [amount : Column]

\* What a request under way relies on: the transaction it is about to mark has a
\* receipt as long as it exists, and the one whose receipt it deletes is gone.
RequestOK(q) ==
    /\ q.at \notin {"new", "done"} => q.entry \in Entries
    /\ q.at = "applying" => q.read \in Column
    /\ q.at = "attaching" => /\ q.entry \in Transactions
                             /\ entries[q.entry] # Null
                             /\ Exists(q.entry) => q.entry \in objects
    /\ q.at = "cleaning" => entries[q.entry] = Gone

SplitsInv ==
    /\ TypeOK
    /\ \A r \in Requests : RequestOK(request[r])
    /\ ReceiptIsThere

-----------------------------------------------------------------------------
(* Amounts, rows, lines and requests.                                      *)

LEMMA Disjoint ==
    /\ Null # Gone /\ Null \notin Entries /\ Gone \notin Entries
    /\ Null \notin Categories /\ Null \notin Nat /\ Null \notin Requests
    /\ \A e \in Templates \cup Recurrences : e \notin Transactions
    /\ \A e \in Entries : Null \notin Row(e) /\ Gone \notin Row(e)
  BY SplitsConstants, RowsAreThere DEF Entries, Row, TemplateRow, RecurringRow

LEMMA StoredInColumn ==
  ASSUME NEW a \in Amounts, Stored(a) > 0
  PROVE  Stored(a) \in Column
  BY DEF Column

LEMMA ColumnPositive == 2 \in Column /\ \A a \in Column : a \in Nat /\ a > 0
<1>1. \A a \in Nat : Stored(a) \in Nat
  BY DEF Stored
<1>2. Stored(2) = 2
  BY DEF Stored
<1> QED
  BY <1>1, <1>2, SplitsConstants DEF Column

LEMMA BodyFacts ==
  ASSUME NEW body \in Body
  PROVE  DOMAIN body \subseteq Categories /\ \A c \in DOMAIN body : body[c] \in Amounts
  BY DEF Body

LEMMA NewLinesFit ==
  ASSUME NEW r \in Requests \cup {Null}, NEW e \in Entries, NEW body \in Body, Positive(body)
  PROVE  \A l \in LinesFrom(r, e, body) :
            l \in Line /\ l.entry = e /\ l.category \in DOMAIN body
<1>1. \A c \in DOMAIN body : c \in Categories /\ Stored(body[c]) \in Column
  BY BodyFacts, StoredInColumn DEF Positive
<1> QED
  BY <1>1 DEF LinesFrom, Line

LEMMA RowsTyped ==
  TypeOK <=> /\ DOMAIN entries = Entries
             /\ \A e \in Entries : entries[e] \in Row(e) \cup {Null, Gone}
             /\ \A l \in lines : l \in Line /\ Exists(l.entry) /\ l.category \in categories
             /\ categories \subseteq Categories
             /\ request \in [Requests -> RequestState]
             /\ tickets \subseteq Transactions /\ objects \subseteq Transactions
             /\ disturbed \subseteq Entries
  BY Disjoint DEF TypeOK, Row, Entries, TemplateRow, RecurringRow

LEMMA NewFacts ==
  /\ New \in RequestState /\ New.at = "new"
  /\ [New EXCEPT !.at = "done"] \in RequestState
  /\ [New EXCEPT !.at = "done"].at = "done"
  BY DEF New, RequestState

-----------------------------------------------------------------------------
(* What every step respects: a row that is gone stays gone, one that is    *)
(* there is not forgotten, only the object of a row that is gone is        *)
(* deleted, and a row is marked only over an object.                       *)

Respects ==
    /\ \A e \in Entries : /\ entries[e] = Gone => entries'[e] = Gone
                          /\ entries[e] # Null => entries'[e] # Null
    /\ \A o \in objects : o \in objects' \/ entries[o] = Gone
    /\ \A t \in Transactions : Exists(t)' /\ entries'[t].photo =>
          t \in objects' \/ (Exists(t) /\ entries[t].photo)

\* The receipts stay, and what an old request relied on.
LEMMA Relied ==
  ASSUME SplitsInv, Respects, TypeOK',
         \A r \in Requests :
            \/ RequestOK(request[r])'
            \/ /\ request'[r].at = request[r].at /\ request'[r].entry = request[r].entry
               /\ request'[r].read = request[r].read
  PROVE  SplitsInv'
<1>1. ASSUME NEW r \in Requests PROVE RequestOK(request[r])'
  <2>1. CASE RequestOK(request[r])'
    BY <2>1
  <2>2. CASE /\ request'[r].at = request[r].at /\ request'[r].entry = request[r].entry
             /\ request'[r].read = request[r].read
    <3>1. RequestOK(request[r])
      BY DEF SplitsInv
    <3>2. request[r].at = "attaching" => /\ entries'[request[r].entry] # Null
                                         /\ Exists(request[r].entry)' => request[r].entry \in objects'
      BY <2>2, <3>1 DEF RequestOK, Respects, Exists, Entries
    <3>3. request[r].at = "cleaning" => entries'[request[r].entry] = Gone
      BY <3>1 DEF RequestOK, Respects
    <3> QED
      BY <2>2, <3>1, <3>2, <3>3 DEF RequestOK, Exists
  <2> QED
    BY <2>1, <2>2
<1>2. ReceiptIsThere'
  <2> SUFFICES ASSUME NEW t \in Transactions, Exists(t)', entries'[t].photo
               PROVE  t \in objects'
    BY DEF ReceiptIsThere
  <2>1. t \in objects' \/ t \in objects
    BY DEF Respects, SplitsInv, ReceiptIsThere
  <2>2. entries[t] # Gone
    BY DEF Respects, Exists, Entries
  <2> QED
    BY <2>1, <2>2 DEF Respects
<1> QED
  BY <1>1, <1>2 DEF SplitsInv

\* Steps that leave the tables of entries, lines and categories alone.
LEMMA QuietStep ==
  ASSUME SplitsInv, UNCHANGED <<entries, lines, categories>>,
         tickets' \subseteq Transactions, objects' \subseteq Transactions,
         disturbed' \subseteq Entries,
         \A o \in objects : o \in objects' \/ entries[o] = Gone,
         request' \in [Requests -> RequestState],
         \A r \in Requests : RequestOK(request[r])' \/ request'[r] = request[r]
  PROVE  SplitsInv'
<1>1. TypeOK'
  BY DEF SplitsInv, TypeOK, Exists
<1>2. Respects
  BY DEF Respects, Exists
<1> QED
  BY <1>1, <1>2, Relied

\* One request moves on.
LEMMA MoveStep ==
  ASSUME SplitsInv, UNCHANGED <<entries, lines, categories, tickets, objects, disturbed>>,
         NEW r \in Requests, NEW state \in RequestState, RequestOK(state),
         request' = [request EXCEPT ![r] = state]
  PROVE  SplitsInv'
<1>1. /\ request' \in [Requests -> RequestState] /\ request'[r] = state
      /\ \A s \in Requests \ {r} : request'[s] = request[s]
  BY DEF SplitsInv, TypeOK
<1>2. RequestOK(request[r])'
  BY <1>1 DEF RequestOK, Exists
<1>3. /\ tickets \subseteq Transactions /\ objects \subseteq Transactions
      /\ disturbed \subseteq Entries
  BY DEF SplitsInv, TypeOK
<1> QED
  BY <1>1, <1>2, <1>3, QuietStep

LEMMA EndFacts ==
  ASSUME SplitsInv, NEW r \in Requests, End(r)
  PROVE  /\ request' \in [Requests -> RequestState]
         /\ RequestOK(request[r])'
         /\ \A s \in Requests \ {r} : request'[s] = request[s]
<1>1. /\ request' \in [Requests -> RequestState] /\ request'[r].at = "done"
      /\ \A s \in Requests \ {r} : request'[s] = request[s]
  BY NewFacts DEF End, SplitsInv, TypeOK
<1> QED
  BY <1>1 DEF RequestOK

-----------------------------------------------------------------------------
(* The tables.                                                             *)

\* Entry e becomes row, and the lines become other lines: none of an entry that is
\* not there, of a category that is not there.
LEMMA RowStep ==
  ASSUME SplitsInv, NEW e \in Entries, NEW row \in Row(e) \cup {Gone},
         DOMAIN entries' = Entries, entries'[e] = row,
         \A f \in Entries \ {e} : entries'[f] = entries[f],
         \A l \in lines' : \/ l \in lines /\ (row = Gone => l.entry # e)
                           \/ /\ l \in Line /\ l.category \in categories
                              /\ l.entry = e /\ row # Gone,
         UNCHANGED <<categories, tickets, objects>>, disturbed' \subseteq Entries,
         entries[e] = Gone => row = Gone,
         e \in Transactions /\ row # Gone /\ row.photo =>
            e \in objects \/ (Exists(e) /\ entries[e].photo),
         request' \in [Requests -> RequestState],
         \A r \in Requests :
            \/ RequestOK(request[r])'
            \/ /\ request'[r].at = request[r].at /\ request'[r].entry = request[r].entry
               /\ request'[r].read = request[r].read
  PROVE  SplitsInv'
<1>1. /\ DOMAIN entries = Entries
      /\ \A f \in Entries : entries[f] \in Row(f) \cup {Null, Gone}
      /\ \A l \in lines : l \in Line /\ Exists(l.entry) /\ l.category \in categories
      /\ categories \subseteq Categories
      /\ tickets \subseteq Transactions /\ objects \subseteq Transactions
  BY RowsTyped DEF SplitsInv
<1>2. /\ DOMAIN entries' = Entries /\ entries'[e] = row
      /\ \A f \in Entries \ {e} : entries'[f] = entries[f]
  OBVIOUS
<1>3. \A f \in Entries : entries'[f] \in Row(f) \cup {Null, Gone}
  BY <1>1, <1>2
<1>4. row # Null /\ (row # Gone => Exists(e)')
  BY <1>2, Disjoint DEF Exists
<1>5. ASSUME NEW l \in lines' PROVE l \in Line /\ Exists(l.entry)' /\ l.category \in categories
  <2>1. CASE l \in lines /\ (row = Gone => l.entry # e)
    <3>1. l.entry \in Entries
      BY <1>1, <2>1 DEF Line
    <3> QED
      BY <1>1, <1>2, <1>4, <2>1, <3>1 DEF Exists
  <2>2. CASE /\ l \in Line /\ l.category \in categories /\ l.entry = e /\ row # Gone
    BY <1>4, <2>2 DEF Exists
  <2> QED
    BY <2>1, <2>2
<1>6. TypeOK'
  <2>1. /\ \A t \in Transactions : entries'[t] \in TransactionRow \cup {Null, Gone}
        /\ \A m \in Templates : entries'[m] \in TemplateRow \cup {Null, Gone}
        /\ \A p \in Recurrences : entries'[p] \in RecurringRow \cup {Null, Gone}
    BY <1>3, Disjoint DEF Row, Entries, TemplateRow, RecurringRow
  <2> QED
    BY <1>1, <1>2, <1>5, <2>1 DEF TypeOK
<1>7. Respects
  BY <1>2, <1>4 DEF Respects, Exists, Entries
<1> QED
  BY <1>6, <1>7, Relied

\* The same, when the request ends with it.
LEMMA EndRowStep ==
  ASSUME SplitsInv, NEW e \in Entries, NEW row \in Row(e),
         DOMAIN entries' = Entries, entries'[e] = row,
         \A f \in Entries \ {e} : entries'[f] = entries[f],
         \A l \in lines' : \/ l \in lines
                           \/ l \in Line /\ l.category \in categories /\ l.entry = e,
         UNCHANGED <<categories, tickets, objects>>, disturbed' \subseteq Entries,
         entries[e] # Gone,
         e \in Transactions /\ row.photo => e \in objects \/ (Exists(e) /\ entries[e].photo),
         (\E r \in Requests : End(r)) \/ request' = request
  PROVE  SplitsInv'
<1>1. request' \in [Requests -> RequestState]
  BY EndFacts DEF SplitsInv, TypeOK
<1>2. \A r \in Requests : RequestOK(request[r])' \/ request'[r] = request[r]
  BY EndFacts
<1>3. row # Gone
  BY Disjoint
<1> QED
  BY <1>1, <1>2, <1>3, RowStep

-----------------------------------------------------------------------------
(* Entries made.                                                           *)

LEMMA InsertStep ==
  ASSUME SplitsInv, NEW r \in Requests, NEW e \in Entries, NEW amount \in Amounts,
         NEW body \in Body, NEW row, row.amount = Stored(amount),
         row.amount \in Column => row \in Row(e), e \in Transactions => row.photo = FALSE,
         Fits(body, amount), Insert(r, e, row, body),
         disturbed' = IF Fine(amount, body) THEN disturbed \cup {e} ELSE disturbed,
         End(r), UNCHANGED <<categories, tickets, objects>>
  PROVE  SplitsInv'
<1>1. row \in Row(e)
  BY StoredInColumn DEF Insert
<1>2. /\ DOMAIN entries' = Entries /\ entries'[e] = row
      /\ \A f \in Entries \ {e} : entries'[f] = entries[f]
      /\ entries[e] # Gone /\ disturbed' \subseteq Entries
  BY Disjoint DEF Insert, SplitsInv, TypeOK
<1>3. \A l \in lines' : \/ l \in lines
                        \/ l \in Line /\ l.category \in categories /\ l.entry = e
  BY NewLinesFit DEF Insert, Fits
<1> QED
  BY <1>1, <1>2, <1>3, EndRowStep

LEMMA CreateStep ==
  ASSUME SplitsInv, NEW r \in Requests,
         CreateTransaction(r) \/ CreateTemplate(r) \/ CreateRecurring(r)
  PROVE  SplitsInv'
<1>1. CASE CreateTransaction(r)
  <2>1. PICK t \in Transactions, amount \in Amounts, body \in Body :
          /\ Fits(body, amount)
          /\ Insert(r, t, [amount |-> Stored(amount), draft |-> FALSE,
                           photo |-> FALSE], body)
          /\ disturbed' = IF Fine(amount, body) THEN disturbed \cup {t} ELSE disturbed
    BY <1>1 DEF CreateTransaction
  <2> DEFINE row == [amount |-> Stored(amount), draft |-> FALSE, photo |-> FALSE]
  <2>2. /\ row.amount = Stored(amount) /\ row.photo = FALSE /\ t \in Entries
        /\ row.amount \in Column => row \in Row(t)
    BY DEF Row, TransactionRow, Entries
  <2>3. End(r) /\ UNCHANGED <<categories, tickets, objects>>
    BY <1>1 DEF CreateTransaction
  <2> QED
    BY <2>1, <2>2, <2>3, InsertStep
<1>2. ASSUME NEW e \in Templates \cup Recurrences, NEW amount \in Amounts, NEW body \in Body,
             Fits(body, amount), Insert(r, e, [amount |-> Stored(amount)], body),
             disturbed' = IF Fine(amount, body) THEN disturbed \cup {e} ELSE disturbed,
             End(r), UNCHANGED <<categories, tickets, objects>>
      PROVE  SplitsInv'
  <2> DEFINE row == [amount |-> Stored(amount)]
  <2>1. /\ row.amount = Stored(amount) /\ e \in Entries /\ e \notin Transactions
        /\ row.amount \in Column => row \in Row(e)
    BY Disjoint DEF Row, Entries
  <2> QED
    BY <1>2, <2>1, InsertStep
<1>3. CASE CreateTemplate(r)
  BY <1>2, <1>3 DEF CreateTemplate
<1>4. CASE CreateRecurring(r)
  BY <1>2, <1>4 DEF CreateRecurring
<1> QED
  BY <1>1, <1>3, <1>4

\* A transaction with the lines of another entry.
LEMMA PostStep ==
  ASSUME SplitsInv, NEW by \in Requests \cup {Null}, NEW t \in Transactions,
         NEW amount \in Column, NEW ls \in SUBSET lines, Post(by, t, amount, ls),
         (\E r \in Requests : End(r)) \/ request' = request,
         UNCHANGED <<categories, tickets, objects, disturbed>>
  PROVE  SplitsInv'
<1> DEFINE row == [amount |-> amount, draft |-> FALSE, photo |-> FALSE]
<1>1. row \in Row(t) /\ row.photo = FALSE /\ t \in Entries
  BY DEF Row, TransactionRow, Entries
<1>2. /\ DOMAIN entries' = Entries /\ entries'[t] = row
      /\ \A f \in Entries \ {t} : entries'[f] = entries[f]
      /\ entries[t] # Gone /\ disturbed' \subseteq Entries
  BY <1>1, Disjoint DEF Post, SplitsInv, TypeOK
<1>3. ASSUME NEW l \in ls
      PROVE  LET m == [l EXCEPT !.entry = t, !.by = by]
             IN  m \in Line /\ m.category \in categories /\ m.entry = t
  <2>1. l \in Line /\ l.category \in categories
    BY DEF SplitsInv, TypeOK
  <2> QED
    BY <1>1, <2>1 DEF Line
<1>4. \A l \in lines' : \/ l \in lines
                        \/ l \in Line /\ l.category \in categories /\ l.entry = t
  BY <1>3 DEF Post
<1> QED
  BY <1>1, <1>2, <1>4, EndRowStep

LEMMA ApplyStep ==
  ASSUME SplitsInv, NEW r \in Requests, ApplyTemplate(r) \/ CommitApply(r)
  PROVE  SplitsInv'
<1>1. CASE ApplyTemplate(r)
  <2>1. PICK m \in Templates :
          /\ Visible(m)
          /\ request' = [request EXCEPT ![r] =
                [New EXCEPT !.at = "applying", !.entry = m, !.read = entries[m].amount]]
    BY <1>1 DEF ApplyTemplate
  <2>2. entries[m].amount \in Column /\ m \in Entries
    BY <2>1 DEF Visible, Exists, SplitsInv, TypeOK, TemplateRow, Entries
  <2> DEFINE state == [New EXCEPT !.at = "applying", !.entry = m, !.read = entries[m].amount]
  <2>3. /\ state \in RequestState /\ state.at = "applying" /\ state.entry = m
        /\ state.read \in Column
    BY <2>2 DEF New, RequestState
  <2>4. RequestOK(state)
    BY <2>2, <2>3 DEF RequestOK
  <2> QED
    BY <1>1, <2>1, <2>3, <2>4, MoveStep DEF ApplyTemplate
<1>2. CASE CommitApply(r)
  <2>1. /\ End(r) /\ UNCHANGED <<categories, tickets, objects, disturbed>>
        /\ request[r].read \in Column
    BY <1>2 DEF CommitApply, SplitsInv, RequestOK
  <2>2. CASE UNCHANGED <<entries, lines>>
    <3>1. \A s \in Requests : RequestOK(request[s])' \/ request'[s] = request[s]
      BY <2>1, EndFacts
    <3> QED
      BY <2>1, <2>2, <3>1, EndFacts, QuietStep DEF SplitsInv, TypeOK
  <2>3. ASSUME NEW t \in Transactions, Post(r, t, request[r].read, LinesOf(Keep(r)))
        PROVE  SplitsInv'
    <3>1. LinesOf(Keep(r)) \in SUBSET lines
      BY DEF LinesOf
    <3> QED
      BY <2>1, <2>3, <3>1, PostStep
  <2> QED
    BY <1>2, <2>2, <2>3 DEF CommitApply
<1> QED
  BY <1>1, <1>2

LEMMA OccurrenceStep ==
  ASSUME SplitsInv, NEW p \in Recurrences, PostOccurrence(p)
  PROVE  SplitsInv'
<1>1. PICK t \in Transactions : Post(Null, t, entries[p].amount, LinesOf(p))
  BY DEF PostOccurrence
<1>2. entries[p].amount \in Column
  BY DEF PostOccurrence, Exists, SplitsInv, TypeOK, RecurringRow
<1>3. LinesOf(p) \in SUBSET lines
  BY DEF LinesOf
<1>4. request' = request /\ UNCHANGED <<categories, tickets, objects, disturbed>>
  BY DEF PostOccurrence
<1> QED
  BY <1>1, <1>2, <1>3, <1>4, PostStep

-----------------------------------------------------------------------------
(* Entries changed.                                                        *)

LEMMA ConfirmStep ==
  ASSUME SplitsInv, NEW r \in Requests, ConfirmFromPhoto(r)
  PROVE  SplitsInv'
<1>1. PICK t \in Transactions, amount \in Amounts, body \in Body :
        /\ Exists(t) /\ Fits(body, amount) /\ Stored(amount) > 0 /\ Positive(body)
        /\ entries' = [entries EXCEPT ![t].draft = FALSE, ![t].amount = Stored(amount)]
        /\ lines' = lines \cup LinesFrom(r, t, body)
        /\ disturbed' = IF Fine(amount, body) THEN disturbed \cup {t} ELSE disturbed
  BY DEF ConfirmFromPhoto
<1>2. End(r) /\ UNCHANGED <<categories, tickets, objects>>
  BY DEF ConfirmFromPhoto
<1> DEFINE row == [entries[t] EXCEPT !.draft = FALSE, !.amount = Stored(amount)]
<1>3. /\ entries[t] \in TransactionRow /\ t \in Entries /\ entries[t] # Gone
      /\ DOMAIN entries = Entries /\ disturbed \subseteq Entries
  BY <1>1 DEF Exists, SplitsInv, TypeOK, Entries
<1>4. Stored(amount) \in Column
  BY <1>1, StoredInColumn
<1>5. row \in Row(t) /\ row.photo = entries[t].photo
  BY <1>3, <1>4 DEF Row, TransactionRow
<1>6. /\ DOMAIN entries' = Entries /\ entries'[t] = row
      /\ \A f \in Entries \ {t} : entries'[f] = entries[f]
      /\ disturbed' \subseteq Entries
  BY <1>1, <1>3
<1>7. \A l \in lines' : \/ l \in lines
                        \/ l \in Line /\ l.category \in categories /\ l.entry = t
  BY <1>1, <1>3, NewLinesFit DEF Fits
<1> HIDE DEF row
<1> QED
  BY <1>1, <1>2, <1>3, <1>5, <1>6, <1>7, EndRowStep

LEMMA MarkStep ==
  ASSUME SplitsInv, NEW r \in Requests, MarkPhoto(r)
  PROVE  SplitsInv'
<1> DEFINE t == Keep(r)
<1>1. /\ End(r) /\ UNCHANGED <<lines, categories, tickets, objects, disturbed>>
      /\ t \in Transactions /\ (Exists(t) => t \in objects)
  BY DEF MarkPhoto, SplitsInv, RequestOK, Keep
<1>2. /\ t \in Entries /\ DOMAIN entries = Entries /\ disturbed \subseteq Entries
      /\ tickets \subseteq Transactions /\ objects \subseteq Transactions
  BY <1>1 DEF SplitsInv, TypeOK, Entries
<1>3. CASE ~Exists(t)
  <2>1. entries' = entries
    BY <1>3 DEF MarkPhoto
  <2>2. \A s \in Requests : RequestOK(request[s])' \/ request'[s] = request[s]
    BY <1>1, EndFacts
  <2> QED
    BY <1>1, <1>2, <2>1, <2>2, EndFacts, QuietStep
<1>4. CASE Exists(t)
  <2> DEFINE row == [entries[t] EXCEPT !.photo = TRUE]
  <2>1. entries[t] \in TransactionRow /\ entries[t] # Gone /\ t \in objects
    BY <1>1, <1>4 DEF Exists, SplitsInv, TypeOK
  <2>2. row \in Row(t)
    BY <1>1, <2>1 DEF Row, TransactionRow
  <2>3. /\ DOMAIN entries' = Entries /\ entries'[t] = row
        /\ \A f \in Entries \ {t} : entries'[f] = entries[f]
    BY <1>2, <1>4 DEF MarkPhoto
  <2> HIDE DEF row, t
  <2> QED
    BY <1>1, <1>2, <2>1, <2>2, <2>3, EndRowStep
<1> QED
  BY <1>3, <1>4

\* What Committed does to the requests.
LEMMA CommittedFacts ==
  ASSUME SplitsInv, NEW r \in Requests, NEW after \in RequestState, Committed(r, after)
  PROVE  /\ request' \in [Requests -> RequestState] /\ request'[r] = after
         /\ \A s \in Requests \ {r} :
               /\ request'[s].at = request[s].at /\ request'[s].entry = request[s].entry
               /\ request'[s].read = request[s].read
<1>1. ASSUME NEW s \in Requests
      PROVE  LET q == [request[s] EXCEPT !.overlapped = TRUE]
             IN  /\ request[s] \in RequestState /\ q \in RequestState
                 /\ q.at = request[s].at /\ q.entry = request[s].entry
                 /\ q.read = request[s].read
  <2>1. request[s] \in RequestState
    BY DEF SplitsInv, TypeOK
  <2> QED
    BY <2>1 DEF RequestState
<1>2. request' \in [Requests -> RequestState]
  BY <1>1 DEF Committed
<1> QED
  BY <1>1, <1>2 DEF Committed

LEMMA WriteStep ==
  ASSUME SplitsInv, NEW r \in Requests, Write(r)
  PROVE  SplitsInv'
<1>c. PICK e, q : e = Keep(r) /\ q = request[r]
  OBVIOUS
<1>1. /\ e \in Entries /\ q \in RequestState /\ q.at = "ready" /\ e = q.entry
      /\ DOMAIN entries = Entries /\ disturbed \subseteq Entries
      /\ tickets \subseteq Transactions /\ objects \subseteq Transactions
  BY <1>c DEF Write, SplitsInv, TypeOK, RequestOK, Keep
<1>2. /\ ~Refused(r) /\ Exists(e) /\ entries[e] \in Row(e) /\ entries[e] # Gone
      /\ UNCHANGED <<categories, tickets, objects>>
  BY <1>c, <1>1, RowsTyped DEF Write, Refused, Exists, SplitsInv, Keep
<1>3. /\ q.amount \in Amounts \cup {Null} /\ q.body \in Body \cup {Null}
  BY <1>1 DEF RequestState
<1>4. NewAmount(r) => Stored(q.amount) \in Column
  <2> SUFFICES ASSUME NewAmount(r) PROVE Stored(q.amount) \in Column
    OBVIOUS
  <2>1. q.amount \in Amounts /\ Stored(q.amount) # 0
    BY <1>c, <1>2, <1>3 DEF NewAmount, Refused
  <2> QED
    BY <2>1 DEF Column
<1>5. PICK row : row = IF NewAmount(r) THEN [entries[e] EXCEPT !.amount = Stored(q.amount)]
                       ELSE entries[e]
  OBVIOUS
<1>6. row \in Row(e) /\ (e \in Transactions => row.photo = entries[e].photo)
  BY <1>2, <1>4, <1>5 DEF Row, TransactionRow
<1>7. /\ DOMAIN entries' = Entries /\ entries'[e] = row
      /\ \A f \in Entries \ {e} : entries'[f] = entries[f]
      /\ disturbed' \subseteq Entries
  BY <1>c, <1>1, <1>5 DEF Write
<1>8. \A l \in lines' : \/ l \in lines
                        \/ l \in Line /\ l.category \in categories /\ l.entry = e
  <2>1. CASE q.body = Null
    BY <1>c, <2>1 DEF Write, NewLines
  <2>2. CASE q.body # Null
    <3>1. q.body \in Body /\ Positive(q.body) /\ DOMAIN q.body \subseteq categories
      BY <1>c, <1>2, <1>3, <2>2 DEF Refused
    <3>2. lines' \subseteq lines \cup LinesFrom(r, e, q.body)
      BY <1>c, <2>2 DEF Write, NewLines
    <3> QED
      BY <1>1, <3>1, <3>2, NewLinesFit
  <2> QED
    BY <2>1, <2>2
<1>9. Committed(r, [New EXCEPT !.at = "done"])
  BY DEF Write
<1>10. RequestOK(request[r])'
  BY <1>9, NewFacts, CommittedFacts DEF RequestOK
<1>11. row # Gone
  BY <1>1, <1>6, Disjoint
<1> QED
  BY <1>1, <1>2, <1>6, <1>7, <1>8, <1>9, <1>10, <1>11, NewFacts, CommittedFacts, RowStep

LEMMA RemoveStep ==
  ASSUME SplitsInv, NEW r \in Requests, NEW after \in RequestState, Remove(r, after),
         \/ after.at = "done"
         \/ after.at = "cleaning" /\ after.entry = Keep(r)
  PROVE  SplitsInv'
<1>c. PICK e : e = Keep(r)
  OBVIOUS
<1>1. /\ e \in Entries /\ DOMAIN entries = Entries /\ disturbed' \subseteq Entries
  BY <1>c DEF Remove, SplitsInv, TypeOK, RequestOK, Keep
<1>2. /\ DOMAIN entries' = Entries /\ entries'[e] = Gone
      /\ \A f \in Entries \ {e} : entries'[f] = entries[f]
  BY <1>c, <1>1 DEF Remove
<1>3. \A l \in lines' : l \in lines /\ l.entry # e
  BY <1>c DEF Remove, LinesOf
<1>4. Committed(r, after) /\ UNCHANGED <<categories, tickets, objects>>
  BY DEF Remove
<1>5. RequestOK(request[r])'
  BY <1>c, <1>1, <1>2, <1>4, CommittedFacts DEF RequestOK
<1> QED
  BY <1>1, <1>2, <1>3, <1>4, <1>5, CommittedFacts, RowStep

-----------------------------------------------------------------------------
(* Steps of requests between their reads and their writes.                 *)

LEMMA CheckStep ==
  ASSUME SplitsInv, NEW r \in Requests, NEW e \in Entries, Check(r, e)
  PROVE  SplitsInv'
<1>1. PICK amount \in Amounts \cup {Null}, body \in Body \cup {Null} :
        request' = [request EXCEPT ![r] =
              [New EXCEPT !.at = IF body # Null THEN "checked" ELSE "ready",
                          !.entry = e, !.amount = amount, !.body = body,
                          !.read = entries[e].amount]]
  BY DEF Check
<1>2. entries[e].amount \in Column
  <2>1. entries[e] \in Row(e)
    BY RowsTyped DEF Check, Visible, Exists, SplitsInv
  <2> QED
    BY <2>1 DEF Row, TransactionRow
<1> DEFINE state == [New EXCEPT !.at = IF body # Null THEN "checked" ELSE "ready",
                                !.entry = e, !.amount = amount, !.body = body,
                                !.read = entries[e].amount]
<1>3. state \in RequestState /\ state.at \in {"checked", "ready"} /\ state.entry = e
  BY <1>2 DEF New, RequestState
<1>4. RequestOK(state)
  BY <1>3 DEF RequestOK
<1> QED
  BY <1>1, <1>3, <1>4, MoveStep DEF Check

LEMMA LinesStep ==
  ASSUME SplitsInv, NEW r \in Requests, DeleteLines(r) \/ LockLines(r)
  PROVE  SplitsInv'
<1>1. /\ request[r] \in RequestState /\ lines \subseteq Line
      /\ request \in [Requests -> RequestState]
      /\ request[r].entry \in Entries /\ request[r].at \in {"checked", "waiting"}
  BY DEF DeleteLines, LockLines, SplitsInv, TypeOK, RequestOK
<1>2. ASSUME NEW at \in {"waiting", "ready"}, NEW old \in SUBSET Line,
             request' = [request EXCEPT ![r] = [request[r] EXCEPT !.at = at, !.old = old]],
             UNCHANGED <<entries, lines, categories, tickets, objects, disturbed>>
      PROVE  SplitsInv'
  <2> DEFINE state == [request[r] EXCEPT !.at = at, !.old = old]
  <2>1. state \in RequestState /\ state.at = at /\ state.entry = request[r].entry
    BY <1>1 DEF RequestState
  <2>2. RequestOK(state)
    BY <1>1, <2>1 DEF RequestOK
  <2> QED
    BY <1>2, <2>1, <2>2, MoveStep
<1>3. CASE DeleteLines(r)
  <2>1. request' = [request EXCEPT ![r] =
                       [request[r] EXCEPT !.at = "waiting", !.old = LinesOf(Keep(r))]]
    BY <1>1, <1>3 DEF DeleteLines
  <2>2. LinesOf(Keep(r)) \in SUBSET Line
    BY <1>1 DEF LinesOf
  <2> QED
    BY <1>2, <1>3, <2>1, <2>2 DEF DeleteLines
<1>4. CASE LockLines(r)
  <2>1. request' = [request EXCEPT ![r] =
                       [request[r] EXCEPT !.at = "ready", !.old = request[r].old \cap lines]]
    BY <1>1, <1>4 DEF LockLines
  <2>2. request[r].old \cap lines \in SUBSET Line
    BY <1>1
  <2> QED
    BY <1>2, <1>4, <2>1, <2>2 DEF LockLines
<1> QED
  BY <1>3, <1>4

LEMMA LockRowStep ==
  ASSUME SplitsInv, NEW r \in Requests, NEW e \in Entries, LockRow(r, e)
  PROVE  SplitsInv'
<1> DEFINE state == [New EXCEPT !.at = "removing", !.entry = e]
<1>1. state \in RequestState /\ state.at = "removing" /\ state.entry = e
  BY DEF New, RequestState
<1>2. RequestOK(state)
  BY <1>1 DEF RequestOK
<1> QED
  BY <1>1, <1>2, MoveStep DEF LockRow

\* A request ends, with or without a ticket, an object less or nothing at all.
LEMMA EndStep ==
  ASSUME SplitsInv, NEW r \in Requests, End(r),
         UNCHANGED <<entries, lines, categories, disturbed>>,
         tickets' \subseteq Transactions, objects' \subseteq Transactions,
         \A o \in objects : o \in objects' \/ entries[o] = Gone
  PROVE  SplitsInv'
<1>1. \A s \in Requests : RequestOK(request[s])' \/ request'[s] = request[s]
  BY EndFacts
<1>2. disturbed' \subseteq Entries
  BY DEF SplitsInv, TypeOK
<1> QED
  BY <1>1, <1>2, EndFacts, QuietStep

LEMMA PlainEndStep ==
  ASSUME SplitsInv, NEW r \in Requests, End(r),
         UNCHANGED <<entries, lines, categories, tickets, objects, disturbed>>
  PROVE  SplitsInv'
<1>1. tickets' \subseteq Transactions /\ objects' \subseteq Transactions
  BY DEF SplitsInv, TypeOK
<1> QED
  BY <1>1, EndStep

LEMMA ReceiptStep ==
  ASSUME SplitsInv, NEW r \in Requests,
         DeleteObject(r) \/ RequestUpload(r) \/ ConfirmUpload(r)
  PROVE  SplitsInv'
<1>0. tickets \subseteq Transactions /\ objects \subseteq Transactions
  BY DEF SplitsInv, TypeOK
<1>1. CASE DeleteObject(r)
  <2>1. entries[Keep(r)] = Gone
    BY <1>1 DEF DeleteObject, SplitsInv, RequestOK, Keep
  <2>2. \A o \in objects : o \in objects' \/ entries[o] = Gone
    BY <1>1, <2>1 DEF DeleteObject
  <2>3. objects' \subseteq Transactions /\ tickets' \subseteq Transactions
    BY <1>0, <1>1 DEF DeleteObject
  <2> QED
    BY <1>1, <2>2, <2>3, EndStep DEF DeleteObject
<1>2. CASE RequestUpload(r)
  BY <1>0, <1>2, EndStep DEF RequestUpload
<1>3. CASE ConfirmUpload(r)
  <2>1. PICK t \in Transactions :
          /\ Visible(t) /\ t \in objects
          /\ request' = [request EXCEPT ![r] = [New EXCEPT !.at = "attaching", !.entry = t]]
    BY <1>3 DEF ConfirmUpload
  <2> DEFINE state == [New EXCEPT !.at = "attaching", !.entry = t]
  <2>2. state \in RequestState /\ state.at = "attaching" /\ state.entry = t
    BY DEF New, RequestState, Entries
  <2>3. RequestOK(state)
    BY <2>1, <2>2 DEF RequestOK, Visible, Exists, Entries
  <2> QED
    BY <1>3, <2>1, <2>2, <2>3, MoveStep DEF ConfirmUpload
<1> QED
  BY <1>1, <1>2, <1>3

LEMMA UploadStep ==
  ASSUME SplitsInv, NEW t \in Transactions, Upload(t)
  PROVE  SplitsInv'
<1>1. /\ UNCHANGED <<entries, lines, categories, request, disturbed>>
      /\ tickets' \subseteq Transactions /\ objects' \subseteq Transactions
      /\ disturbed' \subseteq Entries /\ request' \in [Requests -> RequestState]
      /\ objects \subseteq objects'
  BY DEF Upload, SplitsInv, TypeOK
<1> QED
  BY <1>1, QuietStep

LEMMA CategoryStep ==
  ASSUME SplitsInv, NEW c \in Categories, DeleteCategory(c)
  PROVE  SplitsInv'
<1>1. /\ UNCHANGED <<entries, lines, request, tickets, objects, disturbed>>
      /\ categories' = categories \ {c} /\ \A l \in lines : l.category # c
  BY DEF DeleteCategory
<1>2. TypeOK'
  BY <1>1 DEF SplitsInv, TypeOK, Exists
<1>3. Respects
  BY <1>1 DEF Respects, Exists
<1> QED
  BY <1>1, <1>2, <1>3, Relied

-----------------------------------------------------------------------------

LEMMA InitInv == Init => SplitsInv
<1> SUFFICES ASSUME Init PROVE SplitsInv
  OBVIOUS
<1>1. PICK e \in Entries \cup {Null}, amount \in Column, body \in Body :
        \E draft, photo, uploaded \in BOOLEAN :
            /\ draft \/ uploaded => e \in Transactions
            /\ draft \/ e = Null => DOMAIN body = {} /\ amount = 2
            /\ draft \/ photo => uploaded
            /\ ~(draft /\ photo)
            /\ ~Fine(amount, body) /\ Positive(body)
            /\ entries = [f \in Entries |->
                  IF f # e THEN Null
                  ELSE IF e \in Transactions
                       THEN [amount |-> amount, draft |-> draft, photo |-> photo]
                       ELSE [amount |-> amount]]
            /\ lines = LinesFrom(Null, e, body)
            /\ objects = IF uploaded THEN {e} ELSE {}
            /\ disturbed = IF DOMAIN body = {} \/ Total(body) = amount
                           THEN {} ELSE {e}
  BY Zenon DEF Init
<1>2. PICK draft \in BOOLEAN, photo \in BOOLEAN, uploaded \in BOOLEAN :
            /\ draft \/ uploaded => e \in Transactions
            /\ e = Null => DOMAIN body = {}
            /\ photo => uploaded
            /\ Positive(body)
            /\ entries = [f \in Entries |->
                  IF f # e THEN Null
                  ELSE IF e \in Transactions
                       THEN [amount |-> amount, draft |-> draft, photo |-> photo]
                       ELSE [amount |-> amount]]
            /\ lines = LinesFrom(Null, e, body)
            /\ objects = IF uploaded THEN {e} ELSE {}
            /\ disturbed = IF DOMAIN body = {} \/ Total(body) = amount
                           THEN {} ELSE {e}
  BY <1>1
<1>3. categories = Categories /\ request = [r \in Requests |-> New] /\ tickets = {}
  BY DEF Init
<1>4. \A f \in Entries : entries[f] \in Row(f) \cup {Null, Gone}
  BY <1>2 DEF Row, TransactionRow
<1>5. e \in Entries => Exists(e)
  <2> SUFFICES ASSUME e \in Entries PROVE Exists(e)
    OBVIOUS
  <2>1. entries[e] \in Row(e)
    BY <1>2 DEF Row, TransactionRow
  <2> QED
    BY <2>1, Disjoint DEF Exists
<1>6. \A l \in lines : l \in Line /\ Exists(l.entry) /\ l.category \in categories
  <2>1. CASE e = Null
    BY <1>2, <2>1 DEF LinesFrom
  <2>2. CASE e \in Entries
    <3>1. \A l \in lines : l \in Line /\ l.entry = e /\ l.category \in DOMAIN body
      BY <1>2, <2>2, NewLinesFit
    <3> QED
      BY <1>3, <1>5, <2>2, <3>1, BodyFacts
  <2> QED
    BY <2>1, <2>2
<1>7. /\ DOMAIN entries = Entries /\ objects \subseteq Transactions
      /\ disturbed \subseteq Entries
  BY <1>2
<1>8. request \in [Requests -> RequestState] /\ \A r \in Requests : RequestOK(request[r])
  BY <1>3, NewFacts DEF RequestOK
<1>9. TypeOK
  BY <1>3, <1>4, <1>6, <1>7, <1>8, RowsTyped
<1>10. ReceiptIsThere
  <2> SUFFICES ASSUME NEW t \in Transactions, Exists(t), entries[t].photo
               PROVE  t \in objects
    BY DEF ReceiptIsThere
  <2>1. t = e
    BY <1>2 DEF Exists, Entries
  <2>2. photo
    BY <1>2, <2>1 DEF Entries
  <2> QED
    BY <1>2, <2>1, <2>2
<1> QED
  BY <1>8, <1>9, <1>10 DEF SplitsInv

LEMMA InvStep == SplitsInv /\ [Next]_vars => SplitsInv'
<1> SUFFICES ASSUME SplitsInv, [Next]_vars PROVE SplitsInv'
  OBVIOUS
<1>0. \A e : e \in Transactions \/ e \in Templates \/ e \in Recurrences => e \in Entries
  BY DEF Entries
<1>1. ASSUME NEW r \in Requests, Start(r) PROVE SplitsInv'
  BY <1>0, <1>1, CreateStep, ConfirmStep, CheckStep, LockRowStep, ReceiptStep, ApplyStep
     DEF Start, UpdateTransaction, DeleteTransaction, UpdateTemplate, DeleteTemplate,
         UpdateRecurring, DeleteRecurring
<1>2. ASSUME NEW r \in Requests, Write(r) \/ Fail(r) PROVE SplitsInv'
  BY <1>2, WriteStep, PlainEndStep DEF Fail
<1>3. ASSUME NEW r \in Requests, CommitDelete(r) PROVE SplitsInv'
  <2> DEFINE after == [New EXCEPT !.at = "cleaning", !.entry = Keep(r)]
  <2>1. Keep(r) \in Transactions /\ Remove(r, after)
    BY <1>3 DEF CommitDelete
  <2>2. after \in RequestState /\ after.at = "cleaning" /\ after.entry = Keep(r)
    BY <1>0, <2>1 DEF New, RequestState
  <2> QED
    BY <2>1, <2>2, RemoveStep
<1>4. ASSUME NEW r \in Requests, CommitDeleteTemplate(r) \/ CommitDeleteRecurring(r)
      PROVE  SplitsInv'
  BY <1>4, NewFacts, RemoveStep DEF CommitDeleteTemplate, CommitDeleteRecurring
<1>5. ASSUME NEW r \in Requests, Continue(r) PROVE SplitsInv'
  BY <1>2, <1>3, <1>4, <1>5, LinesStep, ReceiptStep, MarkStep, ApplyStep
     DEF Continue, ReplaceSplits, ReplaceTemplateSplits, ReplaceRecurringSplits,
         CommitTransaction, CommitTemplate, CommitRecurring
<1>6. ASSUME NEW r \in Requests, CutOff(r) PROVE SplitsInv'
  BY <1>6, PlainEndStep DEF CutOff
<1>7. CASE BreakDeadlock
  BY <1>7, PlainEndStep DEF BreakDeadlock
<1>8. CASE UNCHANGED vars
  <2>1. /\ TypeOK' /\ Respects
    BY <1>8 DEF vars, SplitsInv, TypeOK, Exists, Respects
  <2> QED
    BY <1>8, <2>1, Relied DEF vars
<1> QED
  BY <1>1, <1>5, <1>6, <1>7, <1>8, UploadStep, OccurrenceStep, CategoryStep DEF Next

\* At every moment a request that is about to mark a receipt finds it there, and one
\* that is about to delete a receipt has deleted its transaction.
THEOREM InvHolds == Spec => []SplitsInv
<1> QED
  BY InitInv, InvStep, PTL DEF Spec

\* Rows, lines and requests are well formed, and no line outlives its entry or its
\* category, for any tables, amounts and overlapping requests.
THEOREM SplitsTypeCorrect == Spec => []TypeOK
<1>1. SplitsInv => TypeOK
  BY DEF SplitsInv
<1> QED
  BY <1>1, InvHolds, PTL

\* A transaction marked as having a receipt has one in the bucket
\* (backend/app/transactions/service.py and router.py), whatever uploads, deletes and
\* functions cut off come between the look and the mark.
THEOREM MarkedReceiptsExist == Spec => []ReceiptIsThere
<1>1. SplitsInv => ReceiptIsThere
  BY DEF SplitsInv
<1> QED
  BY <1>1, InvHolds, PTL

-----------------------------------------------------------------------------
(* The lines of an entry sum to its amount: CalmEntriesBalanced, which     *)
(* BalanceInv strengthens by what each PATCH under way relies on.          *)

\* What a PATCH under way relies on, as long as no other write of its entry has
\* met it: the amount it read still stands; its DELETE takes the lines there
\* are; and lines it does not replace sum to the amount it is to write.
PatchOK(q) == q.at \in {"checked", "waiting", "ready"} =>
    /\ entries[q.entry] # Null /\ (Exists(q.entry) => Visible(q.entry))
    /\ q.amount # Null \/ q.body # Null
    /\ \A l \in q.old : l.entry = q.entry
    /\ q.body # Null => DOMAIN q.body = {} \/ Total(q.body) = q.read
    /\ ~q.overlapped /\ Exists(q.entry) =>
        /\ entries[q.entry].amount = q.read
        /\ q.body # Null /\ q.at # "checked" => q.old = LinesOf(q.entry)
        /\ q.body = Null => LinesOf(q.entry) = {} \/ Sum(LinesOf(q.entry)) = q.amount

OneLineEach == \A k, l \in lines :
    k.entry = l.entry /\ k.category = l.category => k = l
DraftsBare == \A t \in Transactions :
    Exists(t) /\ entries[t].draft => LinesOf(t) = {}

BalanceInv ==
    /\ OneLineEach /\ DraftsBare
    /\ \A r \in Requests : PatchOK(request[r])
    /\ CalmEntriesBalanced

-----------------------------------------------------------------------------
(* Sums of lines.                                                          *)

LEMMA BodySummable ==
  ASSUME NEW body \in Body
  PROVE  Summable(body, DOMAIN body)
<1>1. IsFiniteSet(DOMAIN body)
  BY BodyFacts, SplitsConstants, FS_Subset
<1>2. \A c \in DOMAIN body : body[c] \in Int
  <2>1. Amounts \subseteq Int
    BY SplitsConstants
  <2> QED
    BY <2>1, BodyFacts
<1> QED
  BY <1>1, <1>2 DEF Summable

AmountsOf(ls) == [l \in ls |-> l.amount]

\* Lines of distinct categories are finitely many and can be summed.
LEMMA LinesSummable ==
  ASSUME NEW ls, ls \subseteq Line,
         \A k, l \in ls : k.category = l.category => k = l
  PROVE  Summable(AmountsOf(ls), ls)
<1> DEFINE f == [l \in ls |-> l.category]
<1>1. f \in Injection(ls, Categories)
  BY DEF Injection, IsInjective, Line
<1>2. IsFiniteSet(ls)
  BY <1>1, SplitsConstants, FS_Injection
<1> QED
  BY <1>2, ColumnPositive DEF Summable, Line, AmountsOf

\* The lines made from a body in whole cents sum to what the body does.
LEMMA SumOfNewLines ==
  ASSUME NEW r, NEW e, NEW body \in Body,
         \A c \in DOMAIN body : Stored(body[c]) = body[c]
  PROVE  Sum(LinesFrom(r, e, body)) = Total(body)
<1> DEFINE ls == LinesFrom(r, e, body)
           line == [c \in DOMAIN body |->
               [entry |-> e, category |-> c, amount |-> Stored(body[c]), by |-> r]]
           amount == [l \in ls |-> l.amount]
<1>1. /\ \A c \in DOMAIN body : line[c] \in ls
      /\ \A l \in ls : \E c \in DOMAIN body : l = line[c]
  BY DEF LinesFrom
<1>2. \A c \in DOMAIN body : amount[line[c]] = body[c]
  BY <1>1
<1>3. \A c, d \in DOMAIN body : line[c] = line[d] => c = d
  OBVIOUS
<1> HIDE DEF ls, line, amount
<1>4. SumFunctionOnSet(amount, ls) = SumFunctionOnSet(body, DOMAIN body)
  BY <1>1, <1>2, <1>3, BodySummable, SumReindexed
<1> QED
  BY <1>4 DEF Sum, Total, SumFunction, amount, ls

\* Lines that match line by line in their amounts sum to the same.
LEMMA SumOfMatched ==
  ASSUME NEW ls, NEW ks, Summable(AmountsOf(ls), ls), NEW j,
         \A l \in ls : j[l] \in ks /\ j[l].amount = l.amount,
         \A k, l \in ls : j[k] = j[l] => k = l,
         \A k \in ks : \E l \in ls : k = j[l]
  PROVE  Sum(ks) = Sum(ls)
<1>1. \A l \in ls : AmountsOf(ks)[j[l]] = AmountsOf(ls)[l]
  BY DEF AmountsOf
<1>2. SumFunctionOnSet(AmountsOf(ks), ks) = SumFunctionOnSet(AmountsOf(ls), ls)
  BY <1>1, SumReindexed
<1> QED
  BY <1>2 DEF Sum, SumFunction, AmountsOf

-----------------------------------------------------------------------------
(* What a step leaves of these facts where it does not touch them.         *)

\* What a request relied on, over a step that overlaps it or leaves its entry
\* with its amount and its lines.
LEMMA PatchKept ==
  ASSUME NEW s \in Requests, PatchOK(request[s]),
         NEW e, e = request[s].entry,
         /\ request'[s].at = request[s].at /\ request'[s].entry = e
         /\ request'[s].amount = request[s].amount /\ request'[s].body = request[s].body
         /\ request'[s].read = request[s].read /\ request'[s].old = request[s].old,
         entries[e] # Null => entries'[e] # Null,
         Exists(e)' /\ Visible(e) => Visible(e)',
         \/ request'[s].overlapped
         \/ /\ request'[s].overlapped = request[s].overlapped
            /\ LinesOf(e)' = LinesOf(e)
            /\ Exists(e)' => Exists(e) /\ entries'[e].amount = entries[e].amount,
         Exists(e)' => Exists(e)
  PROVE  PatchOK(request[s])'
BY DEF PatchOK

\* A step that writes neither amounts nor lines.
LEMMA QuietBalance ==
  ASSUME BalanceInv, lines' = lines, disturbed' = disturbed,
         \A e \in Entries : /\ Exists(e)' <=> Exists(e)
                            /\ entries[e] # Null => entries'[e] # Null
                            /\ Exists(e) => entries'[e].amount = entries[e].amount
                            /\ e \in Transactions /\ Exists(e) =>
                                  entries'[e].draft = entries[e].draft,
         \A s \in Requests : request'[s] = request[s] \/ PatchOK(request[s])',
         \A s \in Requests : request[s].at \in {"checked", "waiting", "ready"} =>
                                request[s].entry \in Entries
  PROVE  BalanceInv'
<1>1. \A e : LinesOf(e)' = LinesOf(e)
  BY DEF LinesOf
<1>2. \A e \in Entries : Visible(e)' <=> Visible(e)
  BY DEF Visible
<1>3. ASSUME NEW s \in Requests PROVE PatchOK(request[s])'
  <2>1. CASE request'[s] = request[s] /\ request[s].at \in {"checked", "waiting", "ready"}
    <3>1. PICK e \in Entries : e = request[s].entry
      BY <2>1
    <3>2. PatchOK(request[s])
      BY DEF BalanceInv
    <3> QED
      BY <1>1, <1>2, <2>1, <3>1, <3>2, PatchKept
  <2>2. CASE request'[s] = request[s] /\ request[s].at \notin {"checked", "waiting", "ready"}
    BY <2>2 DEF PatchOK
  <2> QED
    BY <2>1, <2>2
<1>4. OneLineEach'
  BY DEF BalanceInv, OneLineEach
<1>5. DraftsBare'
  BY <1>1 DEF BalanceInv, DraftsBare, Entries
<1>6. CalmEntriesBalanced'
  BY <1>1 DEF BalanceInv, CalmEntriesBalanced, Balanced
<1> QED
  BY <1>3, <1>4, <1>5, <1>6 DEF BalanceInv

\* A step that writes entry e and its lines.
LEMMA EntryBalance ==
  ASSUME BalanceInv, NEW e \in Entries,
         lines \subseteq Line, lines' \subseteq Line,
         \A f \in Entries \ {e} : entries'[f] = entries[f],
         \A l \in lines \cup lines' : l.entry # e => (l \in lines <=> l \in lines'),
         disturbed' \ {e} = disturbed \ {e},
         \A k, l \in LinesOf(e)' : k.category = l.category => k = l,
         Exists(e)' => Visible(e)',
         entries'[e] # Null,
         e \notin disturbed' /\ Exists(e)' => Balanced(e)',
         \A s \in Requests :
            \/ PatchOK(request[s])'
            \/ /\ request[s].entry \in Entries \ {e}
               /\ request'[s] = request[s]
            \/ /\ request[s].entry = e
               /\ Exists(e)' => Exists(e)
               /\ request'[s].at = request[s].at /\ request'[s].entry = e
               /\ request'[s].amount = request[s].amount /\ request'[s].body = request[s].body
               /\ request'[s].read = request[s].read /\ request'[s].old = request[s].old
               /\ request'[s].overlapped
  PROVE  BalanceInv'
<1>1. \A f \in Entries \ {e} : LinesOf(f)' = LinesOf(f)
  BY DEF LinesOf
<1>2. \A f \in Entries \ {e} : (Exists(f)' <=> Exists(f)) /\ (Visible(f)' <=> Visible(f))
  BY DEF Exists, Visible
<1>3. ASSUME NEW s \in Requests PROVE PatchOK(request[s])'
  <2>0. PatchOK(request[s])
    BY DEF BalanceInv
  <2>1. CASE request[s].entry \in Entries \ {e} /\ request'[s] = request[s]
    <3>1. PICK f \in Entries \ {e} : f = request[s].entry
      BY <2>1
    <3> QED
      BY <1>1, <1>2, <2>0, <2>1, <3>1, PatchKept
  <2>2. CASE /\ request[s].entry = e
             /\ Exists(e)' => Exists(e)
             /\ request'[s].at = request[s].at /\ request'[s].entry = e
             /\ request'[s].amount = request[s].amount /\ request'[s].body = request[s].body
             /\ request'[s].read = request[s].read /\ request'[s].old = request[s].old
             /\ request'[s].overlapped
    BY <2>0, <2>2, PatchKept
  <2> QED
    BY <2>1, <2>2
<1>4. OneLineEach'
  <2> SUFFICES ASSUME NEW k \in lines', NEW l \in lines',
                      k.entry = l.entry, k.category = l.category
               PROVE  k = l
    BY DEF OneLineEach
  <2>1. CASE k.entry = e
    BY <2>1 DEF LinesOf
  <2>2. CASE k.entry # e
    BY <2>2 DEF BalanceInv, OneLineEach
  <2> QED
    BY <2>1, <2>2
<1>5. DraftsBare'
  <2> SUFFICES ASSUME NEW t \in Transactions, Exists(t)', entries'[t].draft
               PROVE  LinesOf(t)' = {}
    BY DEF DraftsBare
  <2>1. t # e
    BY DEF Visible
  <2> QED
    BY <1>1, <1>2, <2>1 DEF BalanceInv, DraftsBare, Entries
<1>6. CalmEntriesBalanced'
  <2> SUFFICES ASSUME NEW f \in Entries, f \notin disturbed', Exists(f)'
               PROVE  Balanced(f)'
    BY DEF CalmEntriesBalanced
  <2>1. CASE f # e
    <3>1. f \notin disturbed /\ Exists(f) /\ LinesOf(f)' = LinesOf(f)
      BY <1>1, <1>2, <2>1
    <3>2. Balanced(f)
      BY <3>1 DEF BalanceInv, CalmEntriesBalanced
    <3> QED
      BY <2>1, <3>1, <3>2 DEF Balanced
  <2> QED
    BY <2>1
<1> QED
  BY <1>3, <1>4, <1>5, <1>6 DEF BalanceInv

-----------------------------------------------------------------------------
(* The lines of an entry that is made.                                     *)

LEMMA NoLines ==
  ASSUME SplitsInv, NEW e, entries[e] = Null
  PROVE  LinesOf(e) = {}
BY DEF LinesOf, SplitsInv, TypeOK, Exists

LEMMA NewLinesApart ==
  ASSUME NEW r, NEW e, NEW body
  PROVE  \A k, l \in LinesFrom(r, e, body) :
            /\ k.category \in DOMAIN body /\ k.entry = e
            /\ k.category = l.category => k = l
BY DEF LinesFrom

\* What fits its amount, both in whole cents, is balanced.
LEMMA FitsBalanced ==
  ASSUME NEW r, NEW e, NEW amount \in Amounts, NEW body \in Body,
         Fits(body, amount), ~Fine(amount, body),
         entries'[e].amount = Stored(amount), LinesOf(e)' = LinesFrom(r, e, body)
  PROVE  Balanced(e)'
<1>1. Stored(amount) = amount /\ \A c \in DOMAIN body : Stored(body[c]) = body[c]
  BY DEF Fine
<1>2. Sum(LinesFrom(r, e, body)) = Total(body)
  BY <1>1, SumOfNewLines
<1>3. CASE DOMAIN body = {}
  BY <1>3 DEF LinesFrom, Balanced
<1>4. CASE DOMAIN body # {}
  BY <1>1, <1>2, <1>4 DEF Fits, Balanced
<1> QED
  BY <1>3, <1>4

\* No PATCH is under way on an entry that is not there yet, or is a draft.
LEMMA OthersElsewhere ==
  ASSUME SplitsInv, BalanceInv, NEW e \in Entries,
         entries[e] = Null \/ (Exists(e) /\ ~Visible(e)),
         NEW s \in Requests, request'[s] = request[s]
  PROVE  \/ PatchOK(request[s])'
         \/ request[s].entry \in Entries \ {e} /\ request'[s] = request[s]
<1>1. CASE request[s].at \in {"checked", "waiting", "ready"}
  <2>1. request[s].entry \in Entries
    BY <1>1 DEF SplitsInv, RequestOK
  <2>2. PatchOK(request[s])
    BY DEF BalanceInv
  <2> QED
    BY <1>1, <2>1, <2>2 DEF PatchOK
<1>2. CASE request[s].at \notin {"checked", "waiting", "ready"}
  BY <1>2 DEF PatchOK
<1> QED
  BY <1>1, <1>2

LEMMA EndPatch ==
  ASSUME SplitsInv, NEW r \in Requests, End(r)
  PROVE  PatchOK(request[r])' /\ \A s \in Requests \ {r} : request'[s] = request[s]
<1>1. request'[r].at = "done"
  BY NewFacts DEF End, SplitsInv, TypeOK
<1> QED
  BY <1>1, EndFacts DEF PatchOK

LEMMA InsertBalance ==
  ASSUME SplitsInv, SplitsInv', BalanceInv, NEW r \in Requests, NEW e \in Entries,
         NEW amount \in Amounts, NEW body \in Body, NEW row, row.amount = Stored(amount),
         row.amount \in Column => row \in Row(e), e \in Transactions => ~row.draft,
         Fits(body, amount), Insert(r, e, row, body),
         disturbed' = IF Fine(amount, body) THEN disturbed \cup {e} ELSE disturbed,
         End(r)
  PROVE  BalanceInv'
<1>1. /\ entries[e] = Null /\ DOMAIN entries = Entries
      /\ lines \subseteq Line /\ lines' \subseteq Line
  BY DEF Insert, SplitsInv, TypeOK
<1>2. /\ \A f \in Entries \ {e} : entries'[f] = entries[f]
      /\ entries'[e] = row /\ lines' = lines \cup LinesFrom(r, e, body)
  BY <1>1 DEF Insert
<1>3. LinesOf(e)' = LinesFrom(r, e, body)
  BY <1>1, <1>2, NoLines, NewLinesApart DEF LinesOf
<1>4. \A l \in lines \cup lines' : l.entry # e => (l \in lines <=> l \in lines')
  BY <1>2, NewLinesApart
<1>5. \A k, l \in LinesOf(e)' : k.category = l.category => k = l
  BY <1>3, NewLinesApart
<1>6. entries'[e] # Null
  <2>1. row \in Row(e)
    BY StoredInColumn DEF Insert
  <2> QED
    BY <1>2, <2>1, Disjoint
<1>7. Exists(e)' => Visible(e)'
  BY <1>2 DEF Visible
<1>8. e \notin disturbed' => Balanced(e)'
  BY <1>2, <1>3, FitsBalanced
<1>9. \A s \in Requests : \/ PatchOK(request[s])'
                          \/ request[s].entry \in Entries \ {e} /\ request'[s] = request[s]
  BY <1>1, EndPatch, OthersElsewhere
<1> QED
  BY <1>1, <1>2, <1>4, <1>5, <1>6, <1>7, <1>8, <1>9, EntryBalance

LEMMA CreateBalance ==
  ASSUME SplitsInv, SplitsInv', BalanceInv, NEW r \in Requests,
         CreateTransaction(r) \/ CreateTemplate(r) \/ CreateRecurring(r)
  PROVE  BalanceInv'
<1>1. CASE CreateTransaction(r)
  <2>1. PICK t \in Transactions, amount \in Amounts, body \in Body :
          /\ Fits(body, amount)
          /\ Insert(r, t, [amount |-> Stored(amount), draft |-> FALSE,
                           photo |-> FALSE], body)
          /\ disturbed' = IF Fine(amount, body) THEN disturbed \cup {t} ELSE disturbed
    BY <1>1 DEF CreateTransaction
  <2> DEFINE row == [amount |-> Stored(amount), draft |-> FALSE, photo |-> FALSE]
  <2>2. /\ row.amount = Stored(amount) /\ ~row.draft /\ t \in Entries
        /\ row.amount \in Column => row \in Row(t)
    BY DEF Row, TransactionRow, Entries
  <2>3. End(r)
    BY <1>1 DEF CreateTransaction
  <2> QED
    BY <2>1, <2>2, <2>3, InsertBalance
<1>2. ASSUME NEW e \in Templates \cup Recurrences, NEW amount \in Amounts, NEW body \in Body,
             Fits(body, amount), Insert(r, e, [amount |-> Stored(amount)], body),
             disturbed' = IF Fine(amount, body) THEN disturbed \cup {e} ELSE disturbed,
             End(r)
      PROVE  BalanceInv'
  <2> DEFINE row == [amount |-> Stored(amount)]
  <2>1. /\ row.amount = Stored(amount) /\ e \in Entries /\ e \notin Transactions
        /\ row.amount \in Column => row \in Row(e)
    BY Disjoint DEF Row, Entries
  <2> QED
    BY <1>2, <2>1, InsertBalance
<1>3. CASE CreateTemplate(r)
  BY <1>2, <1>3 DEF CreateTemplate
<1>4. CASE CreateRecurring(r)
  BY <1>2, <1>4 DEF CreateRecurring
<1> QED
  BY <1>1, <1>3, <1>4

LEMMA ConfirmBalance ==
  ASSUME SplitsInv, SplitsInv', BalanceInv, NEW r \in Requests, ConfirmFromPhoto(r)
  PROVE  BalanceInv'
<1>1. PICK t \in Transactions, amount \in Amounts, body \in Body :
        /\ Exists(t) /\ entries[t].draft /\ Fits(body, amount) /\ Stored(amount) > 0
        /\ entries' = [entries EXCEPT ![t].draft = FALSE, ![t].amount = Stored(amount)]
        /\ lines' = lines \cup LinesFrom(r, t, body)
        /\ disturbed' = IF Fine(amount, body) THEN disturbed \cup {t} ELSE disturbed
  BY DEF ConfirmFromPhoto
<1>2. /\ entries[t] \in TransactionRow /\ DOMAIN entries = Entries /\ t \in Entries
      /\ lines \subseteq Line /\ lines' \subseteq Line
  BY <1>1 DEF SplitsInv, TypeOK, Exists, Entries
<1>3. /\ \A f \in Entries \ {t} : entries'[f] = entries[f]
      /\ entries'[t].amount = Stored(amount) /\ entries'[t].draft = FALSE
  BY <1>1, <1>2 DEF TransactionRow
<1>4. LinesOf(t) = {}
  BY <1>1 DEF BalanceInv, DraftsBare
<1>5. LinesOf(t)' = LinesFrom(r, t, body)
  BY <1>1, <1>4, NewLinesApart DEF LinesOf
<1>6. \A l \in lines \cup lines' : l.entry # t => (l \in lines <=> l \in lines')
  BY <1>1, NewLinesApart
<1>7. \A k, l \in LinesOf(t)' : k.category = l.category => k = l
  BY <1>5, NewLinesApart
<1>8. entries'[t] # Null
  <2>1. entries'[t] = [entries[t] EXCEPT !.draft = FALSE, !.amount = Stored(amount)]
    BY <1>1, <1>2
  <2>2. Stored(amount) \in Column
    BY <1>1, StoredInColumn
  <2> QED
    BY <1>2, <2>1, <2>2, Disjoint DEF Row, TransactionRow
<1>9. Exists(t)' => Visible(t)'
  BY <1>3 DEF Visible
<1>10. t \notin disturbed' => Balanced(t)'
  BY <1>1, <1>3, <1>5, FitsBalanced
<1>11. ~Visible(t)
  BY <1>1 DEF Visible
<1>12. End(r)
  BY DEF ConfirmFromPhoto
<1>13. \A s \in Requests : \/ PatchOK(request[s])'
                           \/ request[s].entry \in Entries \ {t} /\ request'[s] = request[s]
  BY <1>1, <1>2, <1>11, <1>12, EndPatch, OthersElsewhere
<1>14. disturbed' \ {t} = disturbed \ {t}
  BY <1>1
<1> QED
  BY <1>2, <1>3, <1>6, <1>7, <1>8, <1>9, <1>10, <1>13, <1>14, EntryBalance

LEMMA PostBalance ==
  ASSUME SplitsInv, SplitsInv', BalanceInv, NEW by \in Requests \cup {Null},
         NEW t \in Transactions, NEW amount \in Column, NEW e,
         Post(by, t, amount, LinesOf(e)), disturbed' = disturbed,
         (\E r \in Requests : End(r)) \/ request' = request
  PROVE  BalanceInv'
<1>l. PICK ls : ls = LinesOf(e)
  OBVIOUS
<1>m. PICK copies : copies = {[l EXCEPT !.entry = t, !.by = by] : l \in ls}
  OBVIOUS
<1>1. /\ entries[t] = Null /\ (ls = {} \/ Sum(ls) = amount)
      /\ entries' = [entries EXCEPT ![t] =
             [amount |-> amount, draft |-> FALSE, photo |-> FALSE]]
      /\ lines' = lines \cup copies
  BY <1>l, <1>m DEF Post
<1>2. /\ DOMAIN entries = Entries /\ t \in Entries
      /\ lines \subseteq Line /\ lines' \subseteq Line /\ ls \subseteq Line
  BY <1>l DEF SplitsInv, TypeOK, Entries, LinesOf
<1>3. /\ \A f \in Entries \ {t} : entries'[f] = entries[f]
      /\ entries'[t] = [amount |-> amount, draft |-> FALSE, photo |-> FALSE]
  BY <1>1, <1>2
<1>4. \A k, l \in ls : k.category = l.category => k = l
  BY <1>l DEF BalanceInv, OneLineEach, LinesOf
<1>5. \A l \in copies : l.entry = t
  BY <1>m, <1>2 DEF Line
<1>6. LinesOf(t)' = copies
  BY <1>1, <1>5, NoLines DEF LinesOf
<1>7. \A l \in lines \cup lines' : l.entry # t => (l \in lines <=> l \in lines')
  BY <1>1, <1>5
<1>8. ASSUME NEW k \in copies, NEW l \in copies, k.category = l.category PROVE k = l
  <2>1. PICK m \in ls, n \in ls : /\ k = [m EXCEPT !.entry = t, !.by = by]
                                /\ l = [n EXCEPT !.entry = t, !.by = by]
    BY <1>m
  <2>2. k.category = m.category /\ l.category = n.category
    BY <1>2, <2>1 DEF Line
  <2> QED
    BY <1>4, <1>8, <2>1, <2>2
<1>9. entries'[t] # Null
  <2>1. entries'[t] \in Row(t)
    BY <1>3 DEF Row, TransactionRow
  <2> QED
    BY <1>2, <2>1, Disjoint
<1>10. Exists(t)' => Visible(t)'
  BY <1>3 DEF Visible
<1>11. Balanced(t)'
  <2>1. Sum(copies) = Sum(ls)
    <3>1. PICK copy : copy = [l \in ls |-> [l EXCEPT !.entry = t, !.by = by]]
      OBVIOUS
    <3>2. \A l \in ls : copy[l].amount = l.amount /\ copy[l].category = l.category
      BY <1>2, <3>1 DEF Line
    <3>3. ASSUME NEW k \in ls, NEW l \in ls, copy[k] = copy[l] PROVE k = l
      BY <1>4, <3>2, <3>3
    <3>4. /\ \A l \in ls : copy[l] \in copies
          /\ \A k \in copies : \E l \in ls : k = copy[l]
      BY <1>m, <3>1
    <3>5. Summable(AmountsOf(ls), ls)
      BY <1>2, <1>4, LinesSummable
    <3> QED
      BY <3>2, <3>3, <3>4, <3>5, SumOfMatched
  <2>2. ls = {} => copies = {}
    BY <1>m
  <2>3. entries'[t].amount = amount
    BY <1>3
  <2> QED
    BY <1>1, <1>6, <2>1, <2>2, <2>3 DEF Balanced
<1>12. \A s \in Requests : \/ PatchOK(request[s])'
                           \/ request[s].entry \in Entries \ {t} /\ request'[s] = request[s]
  BY <1>1, <1>2, EndPatch, OthersElsewhere
<1> QED
  BY <1>2, <1>3, <1>6, <1>7, <1>8, <1>9, <1>10, <1>11, <1>12, EntryBalance

-----------------------------------------------------------------------------
(* Entries written and removed.                                            *)

\* The others at work on the entry are overlapped, those elsewhere unmoved.
LEMMA CommittedOthers ==
  ASSUME SplitsInv, NEW r \in Requests, NEW after, Committed(r, after),
         NEW e, e = Keep(r), NEW s \in Requests \ {r}
  PROVE  \/ PatchOK(request[s])'
         \/ /\ request[s].entry \in Entries \ {e}
            /\ request'[s] = request[s]
         \/ /\ request[s].entry = e
            /\ request'[s].at = request[s].at /\ request'[s].entry = e
            /\ request'[s].amount = request[s].amount /\ request'[s].body = request[s].body
            /\ request'[s].read = request[s].read /\ request'[s].old = request[s].old
            /\ request'[s].overlapped
<1>1. request[s] \in RequestState
  BY DEF SplitsInv, TypeOK
<1>2. CASE request[s].entry = e
  <2>1. request'[s] = [request[s] EXCEPT !.overlapped = TRUE]
    BY <1>2 DEF Committed
  <2> QED
    BY <1>1, <1>2, <2>1 DEF RequestState
<1>3. CASE request[s].entry # e
  <2>1. request'[s] = request[s]
    BY <1>3 DEF Committed
  <2>2. request[s].at \in {"checked", "waiting", "ready"} => request[s].entry \in Entries
    BY DEF SplitsInv, RequestOK
  <2> QED
    BY <1>3, <2>1, <2>2 DEF PatchOK
<1> QED
  BY <1>2, <1>3

LEMMA WriteBalance ==
  ASSUME SplitsInv, SplitsInv', BalanceInv, NEW r \in Requests, Write(r)
  PROVE  BalanceInv'
<1>c. PICK e, q : e = Keep(r) /\ q = request[r]
  OBVIOUS
<1>1. /\ e \in Entries /\ q \in RequestState /\ q.at = "ready" /\ e = q.entry
      /\ DOMAIN entries = Entries /\ PatchOK(q)
      /\ lines \subseteq Line /\ lines' \subseteq Line
  BY <1>c DEF Write, SplitsInv, TypeOK, RequestOK, Keep, BalanceInv
<1>2. /\ ~Refused(r) /\ Exists(e) /\ Visible(e) /\ entries[e] \in Row(e)
      /\ \A l \in q.old : l.entry = e
  BY <1>c, <1>1, RowsTyped DEF Write, Refused, Exists, SplitsInv, Keep, PatchOK
<1>3. /\ q.amount \in Amounts \cup {Null} /\ q.body \in Body \cup {Null}
  BY <1>1 DEF RequestState
<1>4. PICK row : row = IF NewAmount(r) THEN [entries[e] EXCEPT !.amount = Stored(q.amount)]
                       ELSE entries[e]
  OBVIOUS
<1>5. /\ entries'[e] = row
      /\ \A f \in Entries \ {e} : entries'[f] = entries[f]
      /\ row.amount = IF NewAmount(r) THEN Stored(q.amount) ELSE entries[e].amount
      /\ e \in Transactions => row.draft = entries[e].draft
  BY <1>c, <1>1, <1>2, <1>4 DEF Write, Row, TransactionRow
<1>6. LinesOf(e)' = IF q.body = Null THEN LinesOf(e)
                    ELSE (LinesOf(e) \ q.old) \cup LinesFrom(r, e, q.body)
  BY <1>c, NewLinesApart DEF Write, NewLines, LinesOf
<1>7. \A l \in lines \cup lines' : l.entry # e => (l \in lines <=> l \in lines')
  BY <1>c, <1>2, NewLinesApart DEF Write, NewLines
<1>8. \A k, l \in LinesOf(e)' : k.category = l.category => k = l
  <2>1. \A k, l \in LinesOf(e) : k.category = l.category => k = l
    BY DEF BalanceInv, OneLineEach, LinesOf
  <2>2. q.body # Null => \A l \in LinesOf(e) \ q.old : l.category \notin DOMAIN q.body
    BY <1>c, <1>1, <1>2 DEF Refused
  <2> QED
    BY <1>6, <2>1, <2>2, NewLinesApart
<1>9. Exists(e)' => Visible(e)'
  BY <1>2, <1>5 DEF Visible
<1>10. entries'[e] # Null
  <2>1. Stored(q.amount) \in Column \/ ~NewAmount(r)
    BY <1>c, <1>2, <1>3 DEF NewAmount, Refused, Column
  <2>2. row \in Row(e)
    BY <1>2, <1>4, <2>1 DEF Row, TransactionRow
  <2> QED
    BY <1>1, <1>5, <2>2, Disjoint
<1>11. disturbed' \ {e} = disturbed \ {e} /\ (e \notin disturbed' => Calm(r))
  BY <1>c DEF Write
<1>12. Calm(r) => Balanced(e)'
  <2> SUFFICES ASSUME Calm(r) PROVE Balanced(e)'
    OBVIOUS
  <2>1. /\ ~q.overlapped /\ (q.amount # Null => Stored(q.amount) = q.amount)
        /\ entries[e].amount = q.read
    BY <1>c, <1>1, <1>2 DEF Calm, PatchOK
  <2>2. CASE q.body = Null
    <3>1. LinesOf(e)' = LinesOf(e) /\ (LinesOf(e) = {} \/ Sum(LinesOf(e)) = q.amount)
      BY <1>1, <1>2, <1>6, <2>1, <2>2 DEF PatchOK
    <3>2. q.amount # Null => row.amount = q.amount
      BY <1>c, <1>5, <2>1 DEF NewAmount
    <3>3. q.amount # Null
      BY <1>1, <2>2 DEF PatchOK
    <3> QED
      BY <1>5, <3>1, <3>2, <3>3 DEF Balanced
  <2>3. CASE q.body # Null
    <3>1. /\ q.body \in Body /\ \A c \in DOMAIN q.body : Stored(q.body[c]) = q.body[c]
          /\ DOMAIN q.body = {} \/ q.amount \in {Null, q.read}
      BY <1>c, <1>3, <2>3 DEF Calm
    <3>2. /\ q.old = LinesOf(e) /\ (DOMAIN q.body = {} \/ Total(q.body) = q.read)
      BY <1>1, <1>2, <2>1, <2>3 DEF PatchOK
    <3>3. LinesOf(e)' = LinesFrom(r, e, q.body)
      BY <1>6, <2>3, <3>2
    <3>4. CASE DOMAIN q.body = {}
      BY <3>3, <3>4 DEF LinesFrom, Balanced
    <3>5. CASE DOMAIN q.body # {}
      <4>1. ~NewAmount(r)
        BY <1>c, <3>1, <3>5 DEF NewAmount
      <4>2. Sum(LinesFrom(r, e, q.body)) = Total(q.body)
        BY <3>1, SumOfNewLines
      <4> QED
        BY <1>5, <2>1, <3>2, <3>3, <3>5, <4>1, <4>2 DEF Balanced
    <3> QED
      BY <3>4, <3>5
  <2> QED
    BY <2>2, <2>3
<1>13. \A s \in Requests \ {r} :
          \/ PatchOK(request[s])'
          \/ /\ request[s].entry \in Entries \ {e}
             /\ request'[s] = request[s]
          \/ /\ request[s].entry = e
             /\ request'[s].at = request[s].at /\ request'[s].entry = e
             /\ request'[s].amount = request[s].amount /\ request'[s].body = request[s].body
             /\ request'[s].read = request[s].read /\ request'[s].old = request[s].old
             /\ request'[s].overlapped
  BY <1>c, CommittedOthers DEF Write
<1>14. PatchOK(request[r])'
  <2>1. request'[r].at = "done"
    BY NewFacts DEF Write, Committed
  <2> QED
    BY <2>1 DEF PatchOK
<1> QED
  BY <1>1, <1>2, <1>5, <1>7, <1>8, <1>9, <1>10, <1>11, <1>12, <1>13, <1>14, EntryBalance

LEMMA RemoveBalance ==
  ASSUME SplitsInv, SplitsInv', BalanceInv, NEW r \in Requests,
         NEW after, after.at \in {"done", "cleaning"}, Remove(r, after)
  PROVE  BalanceInv'
<1>c. PICK e : e = Keep(r)
  OBVIOUS
<1>1. /\ e \in Entries /\ DOMAIN entries = Entries
      /\ lines \subseteq Line /\ lines' \subseteq Line
  BY <1>c DEF Remove, SplitsInv, TypeOK, RequestOK, Keep
<1>2. /\ entries'[e] = Gone /\ ~Exists(e)' /\ disturbed' = disturbed
      /\ \A f \in Entries \ {e} : entries'[f] = entries[f]
      /\ LinesOf(e)' = {} /\ Committed(r, after)
  BY <1>c, <1>1 DEF Remove, Exists, LinesOf
<1>3. \A l \in lines \cup lines' : l.entry # e => (l \in lines <=> l \in lines')
  BY <1>c DEF Remove, LinesOf
<1>4. PatchOK(request[r])'
  <2>1. request'[r] = after
    BY <1>2 DEF Committed
  <2> QED
    BY <2>1 DEF PatchOK
<1>5. \A s \in Requests \ {r} :
          \/ PatchOK(request[s])'
          \/ /\ request[s].entry \in Entries \ {e}
             /\ request'[s] = request[s]
          \/ /\ request[s].entry = e
             /\ request'[s].at = request[s].at /\ request'[s].entry = e
             /\ request'[s].amount = request[s].amount /\ request'[s].body = request[s].body
             /\ request'[s].read = request[s].read /\ request'[s].old = request[s].old
             /\ request'[s].overlapped
  BY <1>c, <1>2, CommittedOthers
<1>6. entries'[e] # Null
  BY <1>2, Disjoint
<1> QED
  BY <1>1, <1>2, <1>3, <1>4, <1>5, <1>6, EntryBalance

-----------------------------------------------------------------------------
(* Steps that write neither entries nor lines, and the first states.       *)

LEMMA PatchingEntries ==
  ASSUME SplitsInv
  PROVE  \A s \in Requests : request[s].at \in {"checked", "waiting", "ready"} =>
                                request[s].entry \in Entries
BY DEF SplitsInv, RequestOK

\* The tables stay; each request stays or relies on what holds.
LEMMA StillBalance ==
  ASSUME SplitsInv, BalanceInv, UNCHANGED <<entries, lines, disturbed>>,
         \A s \in Requests : request'[s] = request[s] \/ PatchOK(request[s])'
  PROVE  BalanceInv'
<1>1. \A e \in Entries : /\ Exists(e)' <=> Exists(e)
                         /\ entries[e] # Null => entries'[e] # Null
                         /\ Exists(e) => entries'[e].amount = entries[e].amount
                         /\ e \in Transactions /\ Exists(e) =>
                               entries'[e].draft = entries[e].draft
  BY DEF Exists
<1> QED
  BY <1>1, PatchingEntries, QuietBalance

\* One request moves on, to where it relies on what holds.
LEMMA MoveBalance ==
  ASSUME SplitsInv, BalanceInv, UNCHANGED <<entries, lines, disturbed>>,
         NEW r \in Requests, NEW state, PatchOK(state),
         request' = [request EXCEPT ![r] = state]
  PROVE  BalanceInv'
<1>1. request'[r] = state /\ \A s \in Requests \ {r} : request'[s] = request[s]
  BY DEF SplitsInv, TypeOK
<1>2. PatchOK(request[r])'
  <2>1. \A e : (Exists(e)' <=> Exists(e)) /\ (Visible(e)' <=> Visible(e))
                /\ LinesOf(e)' = LinesOf(e)
    BY DEF Exists, Visible, LinesOf
  <2> QED
    BY <1>1, <2>1 DEF PatchOK
<1> QED
  BY <1>1, <1>2, StillBalance

LEMMA EndBalance ==
  ASSUME SplitsInv, BalanceInv, UNCHANGED <<entries, lines, disturbed>>,
         NEW r \in Requests, End(r)
  PROVE  BalanceInv'
BY EndPatch, StillBalance

LEMMA MarkBalance ==
  ASSUME SplitsInv, BalanceInv, NEW r \in Requests, MarkPhoto(r)
  PROVE  BalanceInv'
<1>c. PICK t : t = Keep(r)
  OBVIOUS
<1>1. /\ t \in Transactions /\ t \in Entries /\ DOMAIN entries = Entries
      /\ End(r) /\ UNCHANGED <<lines, disturbed>>
      /\ Exists(t) => entries[t] \in TransactionRow
  BY <1>c DEF MarkPhoto, SplitsInv, RequestOK, Keep, TypeOK, Entries, Exists
<1>2. CASE ~Exists(t)
  BY <1>c, <1>1, <1>2, EndBalance DEF MarkPhoto
<1>3. CASE Exists(t)
  <2>1. /\ entries'[t] = [entries[t] EXCEPT !.photo = TRUE]
        /\ \A e \in Entries \ {t} : entries'[e] = entries[e]
    BY <1>c, <1>1, <1>3 DEF MarkPhoto
  <2>2. /\ entries'[t].amount = entries[t].amount /\ entries'[t].draft = entries[t].draft
        /\ entries'[t] \in Row(t)
    BY <1>1, <1>3, <2>1 DEF TransactionRow, Row
  <2>3. Exists(t)'
    BY <1>1, <2>2, Disjoint DEF Exists
  <2>4. \A e \in Entries : /\ Exists(e)' <=> Exists(e)
                           /\ entries[e] # Null => entries'[e] # Null
                           /\ Exists(e) => entries'[e].amount = entries[e].amount
                           /\ e \in Transactions /\ Exists(e) =>
                                 entries'[e].draft = entries[e].draft
    BY <1>3, <2>1, <2>2, <2>3 DEF Exists
  <2>5. \A s \in Requests : request'[s] = request[s] \/ PatchOK(request[s])'
    BY <1>1, EndPatch
  <2> QED
    BY <1>1, <2>4, <2>5, PatchingEntries, QuietBalance
<1> QED
  BY <1>2, <1>3

LEMMA CheckBalance ==
  ASSUME SplitsInv, BalanceInv, NEW r \in Requests, NEW e \in Entries, Check(r, e)
  PROVE  BalanceInv'
<1>1. PICK amount \in Amounts \cup {Null}, body \in Body \cup {Null} :
        /\ amount # Null \/ body # Null
        /\ IF body # Null THEN Fits(body, entries[e].amount)
           ELSE LinesOf(e) = {} \/ Sum(LinesOf(e)) = amount
        /\ request' = [request EXCEPT ![r] =
              [New EXCEPT !.at = IF body # Null THEN "checked" ELSE "ready",
                          !.entry = e, !.amount = amount, !.body = body,
                          !.read = entries[e].amount]]
  BY DEF Check
<1> DEFINE state == [New EXCEPT !.at = IF body # Null THEN "checked" ELSE "ready",
                                !.entry = e, !.amount = amount, !.body = body,
                                !.read = entries[e].amount]
<1>2. /\ state.at = (IF body # Null THEN "checked" ELSE "ready")
      /\ state.entry = e /\ state.amount = amount /\ state.body = body
      /\ state.read = entries[e].amount /\ state.old = {}
  BY DEF New
<1>3. Visible(e) /\ Exists(e)
  BY DEF Check, Visible
<1> HIDE DEF state
<1>4. PatchOK(state)
  BY <1>1, <1>2, <1>3 DEF PatchOK, Fits, Exists
<1>5. request' = [request EXCEPT ![r] = state]
  BY <1>1 DEF state
<1> QED
  BY <1>4, <1>5, MoveBalance DEF Check

LEMMA LinesBalance ==
  ASSUME SplitsInv, BalanceInv, NEW r \in Requests, DeleteLines(r) \/ LockLines(r)
  PROVE  BalanceInv'
<1>c. PICK q, e : q = request[r] /\ e = q.entry
  OBVIOUS
<1>1. /\ q \in RequestState /\ PatchOK(q) /\ q.at \in {"checked", "waiting"}
      /\ request \in [Requests -> RequestState]
  BY <1>c DEF DeleteLines, LockLines, SplitsInv, TypeOK, BalanceInv
<1>2. CASE DeleteLines(r)
  <2> DEFINE state == [q EXCEPT !.at = "waiting", !.old = LinesOf(e)]
  <2>1. /\ state.at = "waiting" /\ state.old = LinesOf(e) /\ state.entry = e
        /\ state.amount = q.amount /\ state.body = q.body /\ state.read = q.read
        /\ state.overlapped = q.overlapped
    BY <1>c, <1>1 DEF RequestState
  <2>2. request' = [request EXCEPT ![r] = state]
    BY <1>c, <1>1, <1>2 DEF DeleteLines, Keep
  <2> HIDE DEF state
  <2>3. PatchOK(state)
    BY <1>c, <1>1, <2>1 DEF PatchOK, LinesOf
  <2> QED
    BY <1>2, <2>2, <2>3, MoveBalance DEF DeleteLines
<1>3. CASE LockLines(r)
  <2> DEFINE state == [q EXCEPT !.at = "ready", !.old = q.old \cap lines]
  <2>1. /\ state.at = "ready" /\ state.old = q.old \cap lines /\ state.entry = e
        /\ state.amount = q.amount /\ state.body = q.body /\ state.read = q.read
        /\ state.overlapped = q.overlapped
    BY <1>c, <1>1 DEF RequestState
  <2>2. request' = [request EXCEPT ![r] = state]
    BY <1>c, <1>1, <1>3 DEF LockLines
  <2> HIDE DEF state
  <2>3. q.at = "waiting" /\ LinesOf(e) \subseteq lines
    BY <1>c, <1>3 DEF LockLines, LinesOf
  <2>4. PatchOK(state)
    BY <1>c, <1>1, <2>1, <2>3 DEF PatchOK
  <2> QED
    BY <1>3, <2>2, <2>4, MoveBalance DEF LockLines
<1> QED
  BY <1>2, <1>3

LEMMA ElsewhereBalance ==
  ASSUME SplitsInv, BalanceInv, NEW r \in Requests,
         \/ \E e \in Entries : LockRow(r, e)
         \/ ApplyTemplate(r) \/ ConfirmUpload(r)
         \/ DeleteObject(r) \/ RequestUpload(r) \/ Fail(r) \/ CutOff(r)
  PROVE  BalanceInv'
<1>1. ASSUME NEW state, request' = [request EXCEPT ![r] = state],
             state.at \in {"removing", "applying", "attaching"},
             UNCHANGED <<entries, lines, disturbed>>
      PROVE  BalanceInv'
  <2>1. PatchOK(state)
    BY <1>1 DEF PatchOK
  <2> QED
    BY <1>1, <2>1, MoveBalance
<1>2. ASSUME NEW e \in Entries, LockRow(r, e) PROVE BalanceInv'
  <2> DEFINE state == [New EXCEPT !.at = "removing", !.entry = e]
  <2>1. state.at = "removing"
    BY DEF New
  <2> QED
    BY <1>1, <1>2, <2>1 DEF LockRow
<1>3. CASE ApplyTemplate(r)
  <2>1. PICK m, read :
          request' = [request EXCEPT ![r] =
              [New EXCEPT !.at = "applying", !.entry = m, !.read = read]]
    BY <1>3 DEF ApplyTemplate
  <2> DEFINE state == [New EXCEPT !.at = "applying", !.entry = m, !.read = read]
  <2>2. state.at = "applying"
    BY DEF New
  <2> QED
    BY <1>1, <1>3, <2>1, <2>2 DEF ApplyTemplate
<1>4. CASE ConfirmUpload(r)
  <2>1. PICK t :
          request' = [request EXCEPT ![r] = [New EXCEPT !.at = "attaching", !.entry = t]]
    BY <1>4 DEF ConfirmUpload
  <2> DEFINE state == [New EXCEPT !.at = "attaching", !.entry = t]
  <2>2. state.at = "attaching"
    BY DEF New
  <2> QED
    BY <1>1, <1>4, <2>1, <2>2 DEF ConfirmUpload
<1>5. CASE DeleteObject(r) \/ RequestUpload(r) \/ Fail(r) \/ CutOff(r)
  BY <1>5, EndBalance DEF DeleteObject, RequestUpload, Fail, CutOff
<1> QED
  BY <1>2, <1>3, <1>4, <1>5

LEMMA CommitApplyBalance ==
  ASSUME SplitsInv, SplitsInv', BalanceInv, NEW r \in Requests, CommitApply(r)
  PROVE  BalanceInv'
<1>c. PICK e, read : e = Keep(r) /\ read = request[r].read
  OBVIOUS
<1>1. End(r) /\ disturbed' = disturbed /\ read \in Column
  BY <1>c DEF CommitApply, SplitsInv, RequestOK
<1>2. CASE UNCHANGED <<entries, lines>>
  BY <1>1, <1>2, EndBalance
<1>3. ASSUME NEW t \in Transactions, Post(r, t, read, LinesOf(e)) PROVE BalanceInv'
  BY <1>1, <1>3, PostBalance
<1> QED
  BY <1>c, <1>2, <1>3 DEF CommitApply

LEMMA OccurrenceBalance ==
  ASSUME SplitsInv, SplitsInv', BalanceInv, NEW p \in Recurrences, PostOccurrence(p)
  PROVE  BalanceInv'
<1>1. PICK t \in Transactions : Post(Null, t, entries[p].amount, LinesOf(p))
  BY DEF PostOccurrence
<1>c. PICK amount : amount = entries[p].amount
  OBVIOUS
<1>2. amount \in Column
  BY <1>c DEF PostOccurrence, Exists, SplitsInv, TypeOK, RecurringRow
<1>3. Post(Null, t, amount, LinesOf(p))
  BY <1>c, <1>1
<1>4. request' = request /\ disturbed' = disturbed
  BY DEF PostOccurrence
<1> QED
  BY <1>2, <1>3, <1>4, PostBalance

LEMMA InitBalance == Init => BalanceInv
<1> SUFFICES ASSUME Init PROVE BalanceInv
  OBVIOUS
<1>1. PICK e \in Entries \cup {Null}, amount \in Column, body \in Body :
        \E draft, photo, uploaded \in BOOLEAN :
            /\ draft \/ uploaded => e \in Transactions
            /\ draft \/ e = Null => DOMAIN body = {} /\ amount = 2
            /\ draft \/ photo => uploaded
            /\ ~(draft /\ photo)
            /\ ~Fine(amount, body) /\ Positive(body)
            /\ entries = [f \in Entries |->
                  IF f # e THEN Null
                  ELSE IF e \in Transactions
                       THEN [amount |-> amount, draft |-> draft, photo |-> photo]
                       ELSE [amount |-> amount]]
            /\ lines = LinesFrom(Null, e, body)
            /\ objects = IF uploaded THEN {e} ELSE {}
            /\ disturbed = IF DOMAIN body = {} \/ Total(body) = amount
                           THEN {} ELSE {e}
  BY Zenon DEF Init
<1>2. PICK draft \in BOOLEAN, photo \in BOOLEAN :
            /\ draft => DOMAIN body = {}
            /\ \A c \in DOMAIN body : Stored(body[c]) = body[c]
            /\ entries = [f \in Entries |->
                  IF f # e THEN Null
                  ELSE IF e \in Transactions
                       THEN [amount |-> amount, draft |-> draft, photo |-> photo]
                       ELSE [amount |-> amount]]
            /\ lines = LinesFrom(Null, e, body)
            /\ disturbed = IF DOMAIN body = {} \/ Total(body) = amount
                           THEN {} ELSE {e}
  BY <1>1 DEF Fine
<1>3. /\ \A f \in Entries : Exists(f) => f = e /\ entries[f].amount = amount
      /\ \A t \in Transactions : Exists(t) /\ entries[t].draft => draft
  BY <1>2 DEF Exists, Entries
<1>4. LinesOf(e) = LinesFrom(Null, e, body)
  BY <1>2, NewLinesApart DEF LinesOf
<1>5. OneLineEach
  BY <1>2, NewLinesApart DEF OneLineEach
<1>6. DraftsBare
  <2> SUFFICES ASSUME NEW t \in Transactions, Exists(t), entries[t].draft
               PROVE  LinesOf(t) = {}
    BY DEF DraftsBare
  <2>1. t = e /\ draft
    BY <1>3 DEF Entries
  <2> QED
    BY <1>2, <1>4, <2>1 DEF LinesFrom
<1>7. \A r \in Requests : PatchOK(request[r])
  BY NewFacts DEF Init, PatchOK
<1>8. CalmEntriesBalanced
  <2> SUFFICES ASSUME NEW f \in Entries, f \notin disturbed, Exists(f)
               PROVE  Balanced(f)
    BY DEF CalmEntriesBalanced
  <2>1. f = e /\ (DOMAIN body = {} \/ Total(body) = amount)
    BY <1>2, <1>3
  <2>2. Sum(LinesFrom(Null, e, body)) = Total(body)
    BY <1>2, SumOfNewLines
  <2>3. DOMAIN body = {} => LinesFrom(Null, e, body) = {}
    BY DEF LinesFrom
  <2> QED
    BY <1>3, <1>4, <2>1, <2>2, <2>3 DEF Balanced
<1> QED
  BY <1>5, <1>6, <1>7, <1>8 DEF BalanceInv

LEMMA BalanceStep == SplitsInv /\ SplitsInv' /\ BalanceInv /\ [Next]_vars => BalanceInv'
<1> SUFFICES ASSUME SplitsInv, SplitsInv', BalanceInv, [Next]_vars PROVE BalanceInv'
  OBVIOUS
<1>0. \A e : e \in Transactions \/ e \in Templates \/ e \in Recurrences => e \in Entries
  BY DEF Entries
<1>1. ASSUME NEW r \in Requests, Start(r) PROVE BalanceInv'
  BY <1>0, <1>1, CreateBalance, ConfirmBalance, CheckBalance, ElsewhereBalance
     DEF Start, UpdateTransaction, DeleteTransaction, UpdateTemplate, DeleteTemplate,
         UpdateRecurring, DeleteRecurring
<1>2. ASSUME NEW r \in Requests, CommitDelete(r) PROVE BalanceInv'
  <2>c. PICK e : e = Keep(r)
    OBVIOUS
  <2> DEFINE after == [New EXCEPT !.at = "cleaning", !.entry = e]
  <2>1. after.at = "cleaning"
    BY DEF New
  <2>2. Remove(r, after)
    BY <1>2, <2>c DEF CommitDelete
  <2> HIDE DEF after
  <2> QED
    BY <2>1, <2>2, RemoveBalance
<1>3. ASSUME NEW r \in Requests, CommitDeleteTemplate(r) \/ CommitDeleteRecurring(r)
      PROVE  BalanceInv'
  <2>1. PICK after : after = [New EXCEPT !.at = "done"]
    OBVIOUS
  <2>2. after.at = "done" /\ Remove(r, after)
    BY <1>3, <2>1, NewFacts DEF CommitDeleteTemplate, CommitDeleteRecurring
  <2> QED
    BY <2>2, RemoveBalance
<1>4. ASSUME NEW r \in Requests, Continue(r) PROVE BalanceInv'
  BY <1>2, <1>3, <1>4, WriteBalance, LinesBalance, ElsewhereBalance, MarkBalance,
     CommitApplyBalance
     DEF Continue, ReplaceSplits, ReplaceTemplateSplits, ReplaceRecurringSplits,
         CommitTransaction, CommitTemplate, CommitRecurring
<1>5. CASE BreakDeadlock
  BY <1>5, EndBalance DEF BreakDeadlock
<1>6. ASSUME UNCHANGED <<entries, lines, request, disturbed>> PROVE BalanceInv'
  BY <1>6, StillBalance
<1>7. CASE UNCHANGED vars
  BY <1>6, <1>7 DEF vars
<1>8. ASSUME NEW t \in Transactions, Upload(t) PROVE BalanceInv'
  BY <1>6, <1>8 DEF Upload
<1>9. ASSUME NEW c \in Categories, DeleteCategory(c) PROVE BalanceInv'
  BY <1>6, <1>9 DEF DeleteCategory
<1> QED
  BY <1>1, <1>4, <1>5, <1>7, <1>8, <1>9, ElsewhereBalance, OccurrenceBalance DEF Next

\* The lines of an entry sum to its amount (design D22) as long as its last write was
\* calm, whatever PATCHes, DELETEs, postings and functions cut off run beside it: the
\* invariant CalmEntriesBalanced, for any tables, amounts and requests.
THEOREM CalmEntriesStayBalanced == Spec => []CalmEntriesBalanced
<1>1. BalanceInv => CalmEntriesBalanced
  BY DEF BalanceInv
<1>2. Spec => []BalanceInv
  BY InitBalance, BalanceStep, InvHolds, PTL DEF Spec
<1> QED
  BY <1>1, <1>2, PTL
=============================================================================
