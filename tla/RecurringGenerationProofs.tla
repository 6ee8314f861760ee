---------------------- MODULE RecurringGenerationProofs ----------------------
(***************************************************************************)
(* Theorems about RecurringGeneration for every set of recurrences, runs,  *)
(* users and days, every cap, and every strictly increasing schedule.      *)
(***************************************************************************)
EXTENDS RecurringGeneration, TLAPS

LEMMA DaysAreNat == \A d \in Days : d \in Nat
  BY ConstantsAssumption

LEMMA NoRowIsRow == NoRow \in Row
<1>1. (CHOOSE a \in Anchors : TRUE) \in Anchors
  BY ConstantsAssumption
<1>2. (CHOOSE c \in Cadences : TRUE) \in Cadences
  BY ConstantsAssumption
<1> QED
  BY <1>1, <1>2, ConstantsAssumption DEF NoRow, Row, Indexes, Ends

\* What a PATCH and what a COMMIT write leaves a row.
LEMMA PatchedRowIsRow ==
  ASSUME NEW x \in Row, NEW c \in Cadences, NEW e \in Ends, NEW ok \in BOOLEAN
  PROVE  [x EXCEPT !.cadence = c, !.ends_on = e, !.postable = ok] \in Row
  BY DEF Row

LEMMA CommittedRowIsRow ==
  ASSUME NEW x \in Row, NEW i \in Indexes, NEW d \in Nat
  PROVE  [x EXCEPT !.occurrence_index = i, !.next_date = d] \in Row
  BY DEF Row

LEMMA NoRecIsRec == NoRec \in Recs
  BY ConstantsAssumption DEF NoRec

LEMMA NoTxIsTx == NoTx \in Tx
  BY ConstantsAssumption DEF NoTx, Tx, Indexes

\* An index whose date the clock can reach lies below the bound.
LEMMA ReachedIndexIsBelowBound ==
  ASSUME NEW a \in Anchors, NEW c \in Cadences, NEW i \in 0..MaxIndex,
         NEW d \in Days, Shift(a, c, i) <= d
  PROVE  /\ i + 1 \in 0..MaxIndex
         /\ Shift(a, c, i) \in Nat
         /\ Shift(a, c, i + 1) \in Nat
<1>1. MaxIndex \in 0..MaxIndex
  BY ConstantsAssumption
<1>2. \A j \in 0..MaxIndex : Shift(a, c, j) \in Nat
  BY ShiftAssumption
<1>3. d < Shift(a, c, MaxIndex)
  BY ShiftAssumption
<1>4. i # MaxIndex
  BY <1>1, <1>2, <1>3, DaysAreNat
<1>5. i + 1 \in 0..MaxIndex
  BY <1>4, ConstantsAssumption
<1> QED
  BY <1>2, <1>5

\* The loop never runs off the horizon: an occurrence that is due has an index
\* below the bound, so the one after it is still a date.
LEMMA DueIndexIsBelowBound ==
  ASSUME TypeOK, NEW p \in Runs, AnotherIsDue(p)
  PROVE  /\ tx[p].index + 1 \in Indexes
         /\ OccurrenceDate(cur[p], tx[p].index) \in Nat
         /\ OccurrenceDate(cur[p], tx[p].index + 1) \in Nat
         /\ OccurrenceDate(cur[p], tx[p].index) <= day[p]
<1>1. /\ row[cur[p]].starts_on \in Anchors /\ row[cur[p]].cadence \in Cadences
      /\ tx[p].index \in 0..MaxIndex /\ day[p] \in Days
  BY DEF TypeOK, Row, Tx, Indexes
<1>2. OccurrenceDate(cur[p], tx[p].index) <= day[p]
  BY DEF AnotherIsDue
<1> QED
  BY <1>1, <1>2, ReachedIndexIsBelowBound DEF Indexes, OccurrenceDate

\* EndTx keeps the types of the run's variables and of the locks.
LEMMA EndTxType ==
  ASSUME TypeOK, NEW p \in Runs, NEW s \in {"idle", "pick", "loop"}, EndTx(p, s)
  PROVE  /\ lock' \in [Recs -> Runs \cup {Free, Http}]
         /\ cur' \in [Runs -> Recs]
         /\ tx' \in [Runs -> Tx]
         /\ pc' \in [Runs -> {"idle", "pick", "loop"}]
  BY NoRecIsRec, NoTxIsTx DEF TypeOK, EndTx

LEMMA InitType == Init => TypeOK
  BY NoRowIsRow, NoRecIsRec, NoTxIsTx, ConstantsAssumption DEF Init, TypeOK

LEMMA RequestType ==
  ASSUME TypeOK, NEW r \in Recs, Request(r)
  PROVE  TypeOK'
<1> USE DEF vars, world, tables, runVars
<1>1. CASE CreateRecurring(r)
  <2>1. PICK a \in Anchors, c \in Cadences, e \in Ends :
          row' = [row EXCEPT ![r] =
                    [starts_on |-> a, cadence |-> c, occurrence_index |-> 0,
                     next_date |-> Shift(a, c, 0), ends_on |-> e, postable |-> TRUE]]
    BY <1>1 DEF CreateRecurring
  <2>2. Shift(a, c, 0) \in Nat /\ 0 \in Indexes
    BY ShiftAssumption, ConstantsAssumption DEF Indexes
  <2>3. row' \in [Recs -> Row]
    BY <2>1, <2>2 DEF TypeOK, Row
  <2> QED
    BY <1>1, <2>3 DEF CreateRecurring, TypeOK
<1>2. CASE BeginRequest(r)
  BY <1>2 DEF BeginRequest, TypeOK
<1>3. CASE PatchRecurring(r)
  <2>1. PICK c \in Cadences, e \in Ends, ok \in BOOLEAN :
          row' = [row EXCEPT ![r] = [@ EXCEPT !.cadence = c, !.ends_on = e, !.postable = ok]]
    BY <1>3 DEF PatchRecurring
  <2>2. [row[r] EXCEPT !.cadence = c, !.ends_on = e, !.postable = ok] \in Row
    BY PatchedRowIsRow DEF TypeOK
  <2>3. row' \in [Recs -> Row]
    BY <2>1, <2>2 DEF TypeOK
  <2>4. altered' \subseteq Recs
    BY <1>3 DEF PatchRecurring, TypeOK
  <2> QED
    BY <1>3, <2>3, <2>4 DEF PatchRecurring, TypeOK
<1>4. CASE DeleteRecurring(r)
  BY <1>4, NoRowIsRow DEF DeleteRecurring, TypeOK
<1>5. CASE AbortRequest(r)
  BY <1>5 DEF AbortRequest, TypeOK
<1> QED
  BY <1>1, <1>2, <1>3, <1>4, <1>5 DEF Request

LEMMA WorldType ==
  ASSUME TypeOK, World
  PROVE  TypeOK'
  BY DEF World, Tick, LeaveWorkspace, RejoinWorkspace, SetWorkspaceActive,
         TypeOK, vars, world, tables, runVars

LEMMA RunType ==
  ASSUME TypeOK, NEW p \in Runs, Generate(p) \/ Crash(p)
  PROVE  TypeOK'
<1> USE DEF world, tables, runVars
<1>1. CASE StartRun(p)
  BY <1>1 DEF StartRun, TypeOK
<1>2. CASE FinishRun(p)
  BY <1>2 DEF FinishRun, TypeOK
<1>3. ASSUME NEW r \in Recs, SkipRow(p, r) \/ PauseRow(p, r)
      PROVE  TypeOK'
  BY <1>3 DEF SkipRow, PauseRow, TypeOK
<1>4. ASSUME NEW r \in Recs, LockRow(p, r)
      PROVE  TypeOK'
  <2>1. tx' \in [Runs -> Tx]
    BY <1>4 DEF LockRow, TypeOK, Tx, Row
  <2> QED
    BY <1>4, <2>1 DEF LockRow, TypeOK
<1>5. CASE PostOccurrence(p)
  <2>1. tx' \in [Runs -> Tx]
    BY <1>5, DueIndexIsBelowBound DEF PostOccurrence, AdvanceCursor, TypeOK, Tx
  <2> QED
    BY <1>5, <2>1 DEF PostOccurrence, TypeOK
<1>6. CASE PassOverOccurrence(p)
  <2>1. tx' \in [Runs -> Tx]
    BY <1>6, DueIndexIsBelowBound DEF PassOverOccurrence, AdvanceCursor, TypeOK, Tx
  <2> QED
    BY <1>6, <2>1 DEF PassOverOccurrence, TypeOK
<1>7. CASE FailOccurrence(p)
  BY <1>7, EndTxType DEF FailOccurrence, TypeOK
<1>8. CASE CommitRow(p)
  <2>0. [row[cur[p]] EXCEPT !.occurrence_index = tx[p].index,
                            !.next_date = tx[p].next_date] \in Row
    BY CommittedRowIsRow DEF TypeOK, Tx
  <2>1. row' \in [Recs -> Row]
    BY <1>8, <2>0 DEF CommitRow, TypeOK
  <2>2. Dates(tx[p].batch) \subseteq Nat
    BY DEF TypeOK, Tx, Dates
  <2>3. occurrences' \in [Recs -> SUBSET Nat]
    BY <1>8, <2>2 DEF CommitRow, TypeOK
  <2>4. ledger' \in [Recs -> Seq(Nat)]
    BY <1>8 DEF CommitRow, TypeOK, Tx
  <2> QED
    BY <1>8, <2>1, <2>3, <2>4, EndTxType DEF CommitRow, TypeOK
<1>9. CASE Crash(p)
  <2>1. crashes' \in 0..MaxCrashes
    BY <1>9, ConstantsAssumption DEF Crash, TypeOK
  <2>2. CASE pc[p] = "loop"
    BY <1>9, <2>1, <2>2, EndTxType DEF Crash, TypeOK
  <2>3. CASE pc[p] # "loop"
    BY <1>9, <2>1, <2>3 DEF Crash, TypeOK
  <2> QED
    BY <2>2, <2>3
<1> QED
  BY <1>1, <1>2, <1>3, <1>4, <1>5, <1>6, <1>7, <1>8, <1>9 DEF Generate

\* Every variable keeps its type; in particular no cursor leaves the horizon of the
\* schedule, whatever overlaps.
THEOREM TypeCorrect == Spec => []TypeOK
<1>1. TypeOK /\ [Next]_vars => TypeOK'
  <2> SUFFICES ASSUME TypeOK, [Next]_vars PROVE TypeOK'
    OBVIOUS
  <2>1. CASE UNCHANGED vars
    BY <2>1 DEF vars, world, tables, runVars, TypeOK
  <2> QED
    BY <2>1, RequestType, WorldType, RunType DEF Next
<1> QED
  BY <1>1, InitType, PTL DEF Spec

-----------------------------------------------------------------------------
(* Lists of dates. *)

\* What appending one date, or a batch, does to a list of dates.
LEMMA AppendDate ==
  ASSUME NEW s \in Seq(Nat), NEW d \in Nat
  PROVE  /\ Append(s, d) \in Seq(Nat)
         /\ Len(Append(s, d)) = Len(s) + 1
         /\ DOMAIN Append(s, d) = DOMAIN s \cup {Len(s) + 1}
         /\ \A k \in DOMAIN s : Append(s, d)[k] = s[k]
         /\ Append(s, d)[Len(s) + 1] = d
         /\ Dates(Append(s, d)) = Dates(s) \cup {d}
<1>1. /\ Append(s, d) \in Seq(Nat)
      /\ Len(Append(s, d)) = Len(s) + 1
      /\ \A k \in DOMAIN s : Append(s, d)[k] = s[k]
      /\ Append(s, d)[Len(s) + 1] = d
  OBVIOUS
<1>2. DOMAIN Append(s, d) = DOMAIN s \cup {Len(s) + 1}
  OBVIOUS
<1> QED
  BY <1>1, <1>2 DEF Dates

\* A stretch of a schedule, with the date that comes next, is a longer stretch.
LEMMA AppendStretch ==
  ASSUME NEW r, NEW base \in Nat, NEW s \in Seq(Nat), NEW d \in Nat,
         \A k \in DOMAIN s : s[k] = OccurrenceDate(r, base + k - 1),
         d = OccurrenceDate(r, base + Len(s))
  PROVE  \A k \in DOMAIN Append(s, d) : Append(s, d)[k] = OccurrenceDate(r, base + k - 1)
<1>1. base + (Len(s) + 1) - 1 = base + Len(s)
  OBVIOUS
<1> QED
  BY <1>1, AppendDate

\* A new date keeps a list of dates free of repetitions.
LEMMA AppendDistinct ==
  ASSUME NEW s \in Seq(Nat), NEW d \in Nat, Distinct(s), d \notin Dates(s)
  PROVE  Distinct(Append(s, d))
<1>1. DOMAIN Append(s, d) = DOMAIN s \cup {Len(s) + 1}
  OBVIOUS
<1>2. \A k \in DOMAIN s : s[k] # d
  BY DEF Dates
<1> QED
  BY <1>1, <1>2, AppendDate DEF Distinct

\* A batch after a ledger: its length, its entries and the dates it holds.
LEMMA ConcatDates ==
  ASSUME NEW s \in Seq(Nat), NEW t \in Seq(Nat)
  PROVE  /\ s \o t \in Seq(Nat)
         /\ Len(s \o t) = Len(s) + Len(t)
         /\ \A k \in DOMAIN s : (s \o t)[k] = s[k]
         /\ \A k \in 1..Len(t) : (s \o t)[Len(s) + k] = t[k]
         /\ \A k \in DOMAIN (s \o t) : k \notin DOMAIN s =>
              k - Len(s) \in DOMAIN t /\ (s \o t)[k] = t[k - Len(s)]
         /\ Dates(s \o t) = Dates(s) \cup Dates(t)
<1>1. /\ s \o t \in Seq(Nat)
      /\ Len(s \o t) = Len(s) + Len(t)
  OBVIOUS
<1>2. \A k \in 1..Len(s) : (s \o t)[k] = s[k]
  OBVIOUS
<1>3. \A k \in 1..Len(t) : (s \o t)[Len(s) + k] = t[k]
  OBVIOUS
<1>4. ASSUME NEW k \in DOMAIN (s \o t), k \notin DOMAIN s
      PROVE  k - Len(s) \in DOMAIN t /\ (s \o t)[k] = t[k - Len(s)]
  BY <1>1, <1>4
<1>5. Dates(s \o t) \subseteq Dates(s) \cup Dates(t)
  BY <1>2, <1>4 DEF Dates
<1>6. Dates(s) \subseteq Dates(s \o t)
  BY <1>1, <1>2 DEF Dates
<1>7. Dates(t) \subseteq Dates(s \o t)
  <2>1. \A k \in DOMAIN t : Len(s) + k \in DOMAIN (s \o t)
    BY <1>1
  <2> QED
    BY <1>3, <2>1 DEF Dates
<1> QED
  BY <1>1, <1>2, <1>3, <1>4, <1>5, <1>6, <1>7

\* The first dates of a schedule and the stretch that comes next are its first dates.
LEMMA ConcatStretch ==
  ASSUME NEW r, NEW s \in Seq(Nat), NEW t \in Seq(Nat),
         \A k \in DOMAIN s : s[k] = OccurrenceDate(r, k - 1),
         \A k \in DOMAIN t : t[k] = OccurrenceDate(r, Len(s) + k - 1)
  PROVE  \A k \in 1..(Len(s) + Len(t)) : (s \o t)[k] = OccurrenceDate(r, k - 1)
<1> SUFFICES ASSUME NEW k \in 1..(Len(s) + Len(t))
             PROVE  (s \o t)[k] = OccurrenceDate(r, k - 1)
  OBVIOUS
<1>1. CASE k \in 1..Len(s)
  <2>1. (s \o t)[k] = s[k]
    BY <1>1
  <2> QED
    BY <1>1, <2>1
<1>2. CASE k \notin 1..Len(s)
  <2>1. k - Len(s) \in 1..Len(t)
    BY <1>2
  <2>2. (s \o t)[k] = t[k - Len(s)]
    BY <2>1
  <2>3. t[k - Len(s)] = OccurrenceDate(r, Len(s) + (k - Len(s)) - 1)
    BY <2>1
  <2>4. Len(s) + (k - Len(s)) - 1 = k - 1
    OBVIOUS
  <2> QED
    BY <2>2, <2>3, <2>4
<1> QED
  BY <1>1, <1>2

\* Two lists without repetitions and with no date in common make one without any.
LEMMA ConcatDistinct ==
  ASSUME NEW s \in Seq(Nat), NEW t \in Seq(Nat), Distinct(s), Distinct(t),
         Dates(s) \cap Dates(t) = {}
  PROVE  Distinct(s \o t)
<1> SUFFICES ASSUME NEW i \in DOMAIN (s \o t), NEW j \in DOMAIN (s \o t), i # j
             PROVE  (s \o t)[i] # (s \o t)[j]
  BY DEF Distinct
<1>1. CASE i \in DOMAIN s /\ j \in DOMAIN s
  BY <1>1, ConcatDates DEF Distinct
<1>2. CASE i \in DOMAIN s /\ j \notin DOMAIN s
  <2>1. (s \o t)[i] \in Dates(s) /\ (s \o t)[j] \in Dates(t)
    BY <1>2, ConcatDates DEF Dates
  <2> QED
    BY <2>1
<1>3. CASE i \notin DOMAIN s /\ j \in DOMAIN s
  <2>1. (s \o t)[j] \in Dates(s) /\ (s \o t)[i] \in Dates(t)
    BY <1>3, ConcatDates DEF Dates
  <2> QED
    BY <2>1
<1>4. CASE i \notin DOMAIN s /\ j \notin DOMAIN s
  <2>1. /\ i - Len(s) \in DOMAIN t /\ (s \o t)[i] = t[i - Len(s)]
        /\ j - Len(s) \in DOMAIN t /\ (s \o t)[j] = t[j - Len(s)]
    BY <1>4, ConcatDates
  <2>2. i - Len(s) # j - Len(s)
    <3>1. i \in Nat /\ j \in Nat /\ Len(s) \in Nat
      BY ConcatDates
    <3> QED
      BY <3>1
  <2> QED
    BY <2>1, <2>2 DEF Distinct
<1> QED
  BY <1>1, <1>2, <1>3, <1>4

-----------------------------------------------------------------------------
(* Frames: an open transaction, and a row, that a step does not touch. *)

\* An open transaction is as good after a step that leaves it and its row alone.
LEMMA TransactionFrame ==
  ASSUME NEW q \in Runs, pc[q] = "loop" => InTransaction(q),
         pc'[q] = pc[q], tx'[q] = tx[q], cur'[q] = cur[q], day'[q] = day[q],
         pc[q] = "loop" =>
            /\ row'[cur[q]] = row[cur[q]]
            /\ occurrences'[cur[q]] = occurrences[cur[q]]
            /\ lock'[cur[q]] = lock[cur[q]]
            /\ cur[q] \in altered <=> cur[q] \in altered'
  PROVE  pc'[q] = "loop" => InTransaction(q)'
  BY DEF InTransaction, OccurrenceDate

\* The parts of the invariant that speak of one recurrence.
RecurrenceInv(r) ==
    /\ r \notin created => ledger[r] = <<>> /\ occurrences[r] = {} /\ r \notin altered
    /\ lock[r] # Free => r \in recs
    /\ Distinct(ledger[r])
    /\ \A d \in Dates(ledger[r]) : d <= today
    /\ r \in recs => occurrences[r] = Dates(ledger[r])
    /\ r \in recs \ altered =>
         /\ ledger[r] = [k \in 1..row[r].occurrence_index |-> OccurrenceDate(r, k - 1)]
         /\ row[r].next_date = OccurrenceDate(r, row[r].occurrence_index)

\* The invariant, one recurrence and one run at a time.
LEMMA InvByParts ==
  GenerationInv <=> /\ TypeOK
                    /\ \A r \in Recs : RecurrenceInv(r)
                    /\ \A p \in Runs : day[p] <= today
                    /\ \A p \in Runs : pc[p] = "loop" => InTransaction(p)
<1>1. TypeOK => recs \subseteq Recs
  BY DEF TypeOK
<1> QED
  BY <1>1 DEF GenerationInv, RecurrenceInv, NoDuplicatePosting, LedgerFollowsSchedule,
              OccurrenceRowsMatchLedger, NeverEarly

\* The same for the next state, in the form the steps below establish it.
LEMMA InvFromParts ==
  ASSUME TypeOK',
         \A r \in Recs : RecurrenceInv(r)',
         \A p \in Runs : day'[p] <= today',
         \A p \in Runs : pc'[p] = "loop" => InTransaction(p)'
  PROVE  GenerationInv'
<1>1. recs' \subseteq Recs
  BY DEF TypeOK
<1> QED
  BY <1>1 DEF GenerationInv, RecurrenceInv, NoDuplicatePosting, LedgerFollowsSchedule,
              OccurrenceRowsMatchLedger, NeverEarly

\* A step that leaves a recurrence, its lock and the clock alone keeps its part.
LEMMA RecurrenceFrame ==
  ASSUME NEW s \in Recs, RecurrenceInv(s),
         row'[s] = row[s], occurrences'[s] = occurrences[s], ledger'[s] = ledger[s],
         lock'[s] = lock[s], today' = today,
         s \in recs <=> s \in recs', s \in created <=> s \in created',
         s \in altered <=> s \in altered'
  PROVE  RecurrenceInv(s)'
  BY DEF RecurrenceInv, OccurrenceDate

\* A run inside its loop holds the lock of a recurrence that is present.
LEMMA LoopHoldsItsRow ==
  ASSUME GenerationInv, NEW q \in Runs, pc[q] = "loop"
  PROVE  cur[q] \in recs /\ lock[cur[q]] = q /\ lock[cur[q]] \notin {Free, Http}
<1>1. lock[cur[q]] = q /\ cur[q] \in Recs
  BY DEF GenerationInv, InTransaction, TypeOK
<1>2. q # Free /\ q # Http
  BY ConstantsAssumption
<1> QED
  BY <1>1, <1>2 DEF GenerationInv

-----------------------------------------------------------------------------
(* Requests and the rest of the world. *)

\* Every step of an HTTP handler keeps the invariant: it holds the row itself, so no
\* open transaction is on it.
LEMMA RequestInv ==
  ASSUME GenerationInv, NEW r \in Recs, Request(r)
  PROVE  GenerationInv'
<1> USE DEF world, tables, runVars
<1>1. TypeOK'
  BY RequestType DEF GenerationInv
<1>2. /\ TypeOK
      /\ \A s \in Recs : RecurrenceInv(s)
      /\ \A q \in Runs : day[q] <= today
      /\ \A q \in Runs : pc[q] = "loop" => InTransaction(q)
  BY InvByParts
<1>3. /\ lock[r] \in {Free, Http}
      /\ UNCHANGED today /\ UNCHANGED runVars
      /\ \A s \in Recs \ {r} :
           /\ row'[s] = row[s] /\ occurrences'[s] = occurrences[s]
           /\ ledger'[s] = ledger[s] /\ lock'[s] = lock[s]
           /\ (s \in recs <=> s \in recs') /\ (s \in created <=> s \in created')
           /\ (s \in altered <=> s \in altered')
  <2>1. CASE CreateRecurring(r)
    BY <1>2, <2>1 DEF CreateRecurring, TypeOK, RecurrenceInv
  <2>2. CASE BeginRequest(r)
    BY <1>2, <2>2 DEF BeginRequest, TypeOK
  <2>3. CASE PatchRecurring(r)
    BY <1>2, <2>3 DEF PatchRecurring, TypeOK
  <2>4. CASE DeleteRecurring(r)
    BY <1>2, <2>4 DEF DeleteRecurring, TypeOK
  <2>5. CASE AbortRequest(r)
    BY <1>2, <2>5 DEF AbortRequest, TypeOK
  <2> QED
    BY <2>1, <2>2, <2>3, <2>4, <2>5 DEF Request
<1>4. \A q \in Runs : pc'[q] = "loop" => InTransaction(q)'
  <2> SUFFICES ASSUME NEW q \in Runs
               PROVE  pc'[q] = "loop" => InTransaction(q)'
    OBVIOUS
  <2>1. pc[q] = "loop" => cur[q] \in Recs /\ cur[q] # r
    BY <1>2, <1>3, LoopHoldsItsRow DEF TypeOK
  <2> QED
    BY <1>2, <1>3, <2>1, TransactionFrame
<1>5. \A s \in Recs : RecurrenceInv(s)'
  <2> SUFFICES RecurrenceInv(r)'
    BY <1>2, <1>3, RecurrenceFrame
  <2>1. CASE CreateRecurring(r)
    <3>1. PICK a \in Anchors, c \in Cadences, e \in Ends :
            row' = [row EXCEPT ![r] =
                      [starts_on |-> a, cadence |-> c, occurrence_index |-> 0,
                       next_date |-> Shift(a, c, 0), ends_on |-> e, postable |-> TRUE]]
      BY <2>1 DEF CreateRecurring
    <3>2. /\ row'[r].occurrence_index = 0
          /\ row'[r].next_date = OccurrenceDate(r, 0)'
      BY <1>2, <3>1 DEF TypeOK, OccurrenceDate
    <3>3. /\ ledger'[r] = <<>> /\ occurrences'[r] = {} /\ r \notin altered'
          /\ r \in recs' /\ r \in created'
      BY <1>2, <2>1 DEF CreateRecurring, RecurrenceInv
    <3>4. Dates(<<>>) = {} /\ Distinct(<<>>)
      BY DEF Dates, Distinct
    <3>5. <<>> = [k \in 1..0 |-> OccurrenceDate(r, k - 1)']
      OBVIOUS
    <3> QED
      BY <3>2, <3>3, <3>4, <3>5 DEF RecurrenceInv
  <2>2. CASE BeginRequest(r)
    BY <1>2, <2>2 DEF BeginRequest, RecurrenceInv, OccurrenceDate
  <2>3. CASE PatchRecurring(r)
    <3>1. PICK c \in Cadences, e \in Ends, ok \in BOOLEAN :
            /\ row' = [row EXCEPT ![r] = [@ EXCEPT !.cadence = c, !.ends_on = e, !.postable = ok]]
            /\ altered' = IF c = row[r].cadence THEN altered ELSE altered \cup {r}
      BY <2>3 DEF PatchRecurring
    <3>2. UNCHANGED <<recs, created, occurrences, ledger, today>>
      BY <2>3 DEF PatchRecurring
    <3>3. r \in recs /\ r \in created /\ lock'[r] = Free
      BY <1>2, <2>3, ConstantsAssumption DEF PatchRecurring, RecurrenceInv, TypeOK
    <3>4. CASE c = row[r].cadence
      <4>1. row'[r] = [row[r] EXCEPT !.cadence = c, !.ends_on = e, !.postable = ok]
        BY <1>2, <3>1 DEF TypeOK
      <4>2. row[r] \in Row
        BY <1>2 DEF TypeOK
      <4>3. /\ row'[r].starts_on = row[r].starts_on
            /\ row'[r].cadence = row[r].cadence
            /\ row'[r].occurrence_index = row[r].occurrence_index
            /\ row'[r].next_date = row[r].next_date
        BY <3>4, <4>1, <4>2 DEF Row
      <4> QED
        BY <1>2, <3>1, <3>2, <3>3, <3>4, <4>3 DEF RecurrenceInv, OccurrenceDate
    <3>5. CASE c # row[r].cadence
      BY <1>2, <3>1, <3>2, <3>3, <3>5 DEF RecurrenceInv
    <3> QED
      BY <3>4, <3>5
  <2>4. CASE DeleteRecurring(r)
    <3>1. r \notin recs' /\ lock'[r] = Free /\ occurrences'[r] = {}
      BY <1>2, <2>4 DEF DeleteRecurring, TypeOK
    <3> QED
      BY <1>2, <2>4, <3>1 DEF DeleteRecurring, RecurrenceInv
  <2>5. CASE AbortRequest(r)
    BY <1>2, <2>5, ConstantsAssumption DEF AbortRequest, RecurrenceInv, OccurrenceDate, TypeOK
  <2> QED
    BY <2>1, <2>2, <2>3, <2>4, <2>5 DEF Request
<1>6. \A q \in Runs : day'[q] <= today'
  BY <1>2, <1>3
<1> QED
  BY <1>1, <1>4, <1>5, <1>6, InvFromParts

\* So do days and members; generation never reads an earlier clock than its own.
LEMMA WorldInv ==
  ASSUME GenerationInv, World
  PROVE  GenerationInv'
<1> USE DEF tables, runVars
<1>1. TypeOK'
  BY WorldType DEF GenerationInv
<1>2. /\ TypeOK
      /\ \A s \in Recs : RecurrenceInv(s)
      /\ \A q \in Runs : day[q] <= today
      /\ \A q \in Runs : pc[q] = "loop" => InTransaction(q)
  BY InvByParts
<1>3. UNCHANGED tables /\ UNCHANGED runVars /\ UNCHANGED lock
  BY DEF World, Tick, LeaveWorkspace, RejoinWorkspace, SetWorkspaceActive
<1>4. today' >= today /\ today \in Nat /\ today' \in Nat
  BY <1>1, <1>2, DaysAreNat
     DEF World, Tick, LeaveWorkspace, RejoinWorkspace, SetWorkspaceActive, TypeOK
<1>5. \A q \in Runs : day'[q] <= today'
  <2>1. \A q \in Runs : day[q] \in Nat /\ day[q] <= today /\ day'[q] = day[q]
    BY <1>2, <1>3, DaysAreNat DEF TypeOK
  <2> QED
    BY <1>4, <2>1
<1>6. \A q \in Runs : pc'[q] = "loop" => InTransaction(q)'
  BY <1>2, <1>3, TransactionFrame
<1>7. \A s \in Recs : RecurrenceInv(s)'
  <2> SUFFICES ASSUME NEW s \in Recs
               PROVE  RecurrenceInv(s)'
    OBVIOUS
  <2>1. \A d \in Dates(ledger[s]) : d \in Nat /\ d <= today
    BY <1>2 DEF TypeOK, Dates, RecurrenceInv
  <2>2. \A d \in Dates(ledger'[s]) : d <= today'
    <3>1. ledger'[s] = ledger[s]
      BY <1>3
    <3> QED
      BY <1>4, <2>1, <3>1
  <2> QED
    BY <1>2, <1>3, <2>2 DEF RecurrenceInv, OccurrenceDate
<1> QED
  BY <1>1, <1>5, <1>6, <1>7, InvFromParts

-----------------------------------------------------------------------------
(* Runs. *)

\* A step of p that touches no row but one that no other run holds leaves the open
\* transactions of the others as they are.
LEMMA OtherRuns ==
  ASSUME GenerationInv, NEW p \in Runs, NEW r \in Recs,
         \A q \in Runs \ {p} : pc[q] = "loop" => cur[q] # r,
         \A q \in Runs \ {p} :
            pc'[q] = pc[q] /\ tx'[q] = tx[q] /\ cur'[q] = cur[q] /\ day'[q] = day[q],
         \A s \in Recs \ {r} :
            row'[s] = row[s] /\ occurrences'[s] = occurrences[s] /\ lock'[s] = lock[s],
         altered' = altered
  PROVE  \A q \in Runs \ {p} : pc'[q] = "loop" => InTransaction(q)'
<1> SUFFICES ASSUME NEW q \in Runs \ {p}
             PROVE  pc'[q] = "loop" => InTransaction(q)'
  OBVIOUS
<1>1. pc[q] = "loop" => InTransaction(q)
  BY DEF GenerationInv
<1>2. cur[q] \in Recs
  BY DEF GenerationInv, TypeOK
<1> QED
  BY <1>1, <1>2, TransactionFrame

\* No two runs are in transactions on one recurrence.
LEMMA RunsHoldDifferentRows ==
  ASSUME GenerationInv, NEW p \in Runs, NEW q \in Runs \ {p}, pc[p] = "loop", pc[q] = "loop"
  PROVE  cur[q] # cur[p]
  BY LoopHoldsItsRow

\* Steps that leave the tables and the locks alone: the scan, its end, a row passed by.
LEMMA ScanInv ==
  ASSUME GenerationInv, NEW p \in Runs,
         \/ StartRun(p) \/ FinishRun(p)
         \/ \E r \in Recs : SkipRow(p, r) \/ PauseRow(p, r)
  PROVE  GenerationInv'
<1> USE DEF world, tables, runVars
<1>1. TypeOK'
  BY RunType DEF GenerationInv, Generate
<1>2. /\ TypeOK
      /\ \A s \in Recs : RecurrenceInv(s)
      /\ \A q \in Runs : day[q] <= today
      /\ \A q \in Runs : pc[q] = "loop" => InTransaction(q)
  BY InvByParts
<1>3. UNCHANGED <<today, tables, lock, cur, tx>>
  BY DEF StartRun, FinishRun, SkipRow, PauseRow
<1>4. \A q \in Runs \ {p} : pc'[q] = pc[q] /\ day'[q] = day[q]
  BY <1>2 DEF StartRun, FinishRun, SkipRow, PauseRow, TypeOK
<1>5. pc'[p] # "loop" /\ (day'[p] = day[p] \/ day'[p] = today)
  BY <1>2 DEF StartRun, FinishRun, SkipRow, PauseRow, TypeOK
<1>6. \A q \in Runs : pc'[q] = "loop" => InTransaction(q)'
  BY <1>2, <1>3, <1>4, <1>5, TransactionFrame
<1>7. \A s \in Recs : RecurrenceInv(s)'
  BY <1>2, <1>3, RecurrenceFrame
<1>8. \A q \in Runs : day'[q] <= today'
  <2>1. today \in Nat /\ today' = today
    BY <1>2, <1>3, DaysAreNat DEF TypeOK
  <2>2. day'[p] <= today'
    BY <1>2, <1>5, <2>1
  <2>3. \A q \in Runs \ {p} : day'[q] <= today'
    BY <1>2, <1>4, <2>1
  <2> QED
    BY <2>2, <2>3
<1> QED
  BY <1>1, <1>6, <1>7, <1>8, InvFromParts

\* Taking a row: the transaction opens at the cursor, with an empty batch.
LEMMA LockRowInv ==
  ASSUME GenerationInv, NEW p \in Runs, NEW r \in Recs, LockRow(p, r)
  PROVE  GenerationInv'
<1> USE DEF world, tables
<1>1. TypeOK'
  BY RunType DEF GenerationInv, Generate
<1>2. /\ TypeOK
      /\ \A s \in Recs : RecurrenceInv(s)
      /\ \A q \in Runs : day[q] <= today
      /\ \A q \in Runs : pc[q] = "loop" => InTransaction(q)
  BY InvByParts
<1>3. /\ UNCHANGED <<today, tables, day>>
      /\ r \in recs
      /\ lock' = [lock EXCEPT ![r] = p]
      /\ cur'[p] = r
      /\ tx'[p] = [index |-> row[r].occurrence_index,
                   next_date |-> row[r].next_date, batch |-> <<>>]
  BY <1>2 DEF LockRow, TypeOK
<1>4. \A q \in Runs \ {p} : pc'[q] = "loop" => InTransaction(q)'
  <2>1. \A q \in Runs \ {p} : pc[q] = "loop" => cur[q] # r
    BY LoopHoldsItsRow DEF LockRow
  <2>2. \A q \in Runs \ {p} : pc'[q] = pc[q] /\ tx'[q] = tx[q] /\ cur'[q] = cur[q]
    BY <1>2 DEF LockRow, TypeOK
  <2>3. \A s \in Recs \ {r} : lock'[s] = lock[s]
    BY <1>2, <1>3 DEF TypeOK
  <2> QED
    BY <1>3, <2>1, <2>2, <2>3, OtherRuns
<1>5. InTransaction(p)'
  <2>1. Dates(<<>>) = {} /\ Distinct(<<>>)
    BY DEF Dates, Distinct
  <2>2. row[r].occurrence_index \in Nat /\ Cap \in Nat
    BY <1>2, ConstantsAssumption DEF TypeOK, Row, Indexes
  <2>3. lock'[r] = p
    BY <1>2, <1>3 DEF TypeOK
  <2>4. /\ tx'[p].index = row'[r].occurrence_index
        /\ tx'[p].batch = <<>>
        /\ tx'[p].next_date = row[r].next_date
        /\ row' = row /\ altered' = altered
    BY <1>3
  <2>5. r \notin altered' => tx'[p].next_date = OccurrenceDate(r, tx[p].index)'
    <3>1. r \notin altered => row[r].next_date = OccurrenceDate(r, row[r].occurrence_index)
      BY <1>2, <1>3 DEF RecurrenceInv
    <3>2. tx'[p].index = row[r].occurrence_index
      BY <2>4
    <3> QED
      BY <2>4, <3>1, <3>2 DEF OccurrenceDate
  <2> QED
    BY <1>3, <2>1, <2>2, <2>3, <2>4, <2>5 DEF InTransaction
<1>6. \A s \in Recs : RecurrenceInv(s)'
  <2>1. RecurrenceInv(r)'
    <3>1. /\ ledger' = ledger /\ occurrences' = occurrences /\ row' = row /\ altered' = altered
          /\ recs' = recs /\ created' = created /\ today' = today
      BY <1>3
    <3> QED
      BY <1>2, <1>3, <3>1 DEF RecurrenceInv, OccurrenceDate
  <2>2. \A s \in Recs \ {r} : lock'[s] = lock[s]
    BY <1>2, <1>3 DEF TypeOK
  <2> QED
    BY <1>2, <1>3, <2>1, <2>2, RecurrenceFrame
<1> QED
  BY <1>1, <1>2, <1>3, <1>4, <1>5, <1>6, InvFromParts

\* Occurrences of a recurrence come in the order of their indexes.
LEMMA ScheduleIncreases ==
  ASSUME TypeOK, NEW r \in Recs, NEW i \in Indexes, NEW j \in Indexes, i < j
  PROVE  OccurrenceDate(r, i) < OccurrenceDate(r, j)
<1>1. row[r].starts_on \in Anchors /\ row[r].cadence \in Cadences
  BY DEF TypeOK, Row
<1> QED
  BY <1>1, ShiftAssumption DEF OccurrenceDate, Indexes

\* The state of a transaction that has an occurrence before it.
LEMMA TransactionFacts ==
  ASSUME GenerationInv, NEW p \in Runs, pc[p] = "loop"
  PROVE  /\ cur[p] \in recs /\ cur[p] \in Recs
         /\ row[cur[p]] \in Row /\ tx[p] \in Tx
         /\ row[cur[p]].occurrence_index \in Nat /\ tx[p].index \in Nat
         /\ tx[p].batch \in Seq(Nat) /\ day[p] \in Nat /\ today \in Nat
         /\ day[p] <= today
         /\ InTransaction(p)
         /\ \A q \in Runs \ {p} : pc[q] = "loop" => cur[q] # cur[p]
<1>1. TypeOK /\ InTransaction(p) /\ day[p] <= today
  BY DEF GenerationInv
<1>2. cur[p] \in recs
  BY LoopHoldsItsRow
<1>3. row[cur[p]] \in Row /\ tx[p] \in Tx /\ cur[p] \in Recs
  BY <1>1 DEF TypeOK
<1>4. row[cur[p]].occurrence_index \in Nat /\ tx[p].index \in Nat /\ tx[p].batch \in Seq(Nat)
  BY <1>3, ConstantsAssumption DEF Row, Tx, Indexes
<1>5. day[p] \in Nat /\ today \in Nat
  BY <1>1, DaysAreNat DEF TypeOK
<1> QED
  BY <1>1, <1>2, <1>3, <1>4, <1>5, RunsHoldDifferentRows

\* A step inside the loop: only the transaction of p changes.
LEMMA LoopStepInv ==
  ASSUME GenerationInv, NEW p \in Runs, pc[p] = "loop",
         TypeOK', InTransaction(p)',
         UNCHANGED <<world, tables, lock, pc, day, due, cur, crashes>>,
         \A q \in Runs \ {p} : tx'[q] = tx[q]
  PROVE  GenerationInv'
<1> USE DEF world, tables
<1>1. /\ TypeOK
      /\ \A s \in Recs : RecurrenceInv(s)
      /\ \A q \in Runs : day[q] <= today
  BY InvByParts
<1>2. \A q \in Runs \ {p} : pc'[q] = "loop" => InTransaction(q)'
  BY TransactionFacts, OtherRuns
<1>3. \A s \in Recs : RecurrenceInv(s)'
  BY <1>1, RecurrenceFrame
<1>4. \A q \in Runs : day'[q] <= today'
  BY <1>1
<1> QED
  BY <1>2, <1>3, <1>4, InvFromParts

\* An iteration below the cap leaves the index within the cap.
LEMMA OneMoreIteration ==
  ASSUME NEW base \in Nat, NEW cap \in Nat, NEW i \in base..(base + cap), NEW n \in Nat,
         n <= i - base, i - base < cap
  PROVE  i + 1 \in base..(base + cap) /\ n + 1 <= (i + 1) - base
  OBVIOUS

\* Posting an occurrence extends the batch by the next date of the schedule.
LEMMA PostOccurrenceInv ==
  ASSUME GenerationInv, NEW p \in Runs, PostOccurrence(p)
  PROVE  GenerationInv'
<1> USE DEF world, tables
<1>1. TypeOK'
  BY RunType DEF GenerationInv, Generate
<1>2. pc[p] = "loop" /\ AnotherIsDue(p)
  BY DEF PostOccurrence
<1>3. PICK occ : occ = OccurrenceDate(cur[p], tx[p].index)
  OBVIOUS
<1>4. /\ occ \in Nat /\ occ <= day[p] /\ ~PastEnd(row[cur[p]].ends_on, occ)
      /\ occ \notin occurrences[cur[p]] /\ occ \notin Dates(tx[p].batch)
      /\ tx[p].index - row[cur[p]].occurrence_index < Cap
  BY <1>2, <1>3, DueIndexIsBelowBound
     DEF GenerationInv, PostOccurrence, AnotherIsDue, AlreadyInserted, Iterations
<1>5. /\ tx'[p] = [index |-> tx[p].index + 1,
                   next_date |-> OccurrenceDate(cur[p], tx[p].index + 1),
                   batch |-> Append(tx[p].batch, occ)]
      /\ \A q \in Runs \ {p} : tx'[q] = tx[q]
      /\ UNCHANGED <<world, tables, lock, pc, day, due, cur, crashes>>
  BY <1>3 DEF PostOccurrence, AdvanceCursor, GenerationInv, TypeOK
<1>6. InTransaction(p)'
  <2>1. /\ lock'[cur'[p]] = p
        /\ row' = row /\ cur' = cur /\ occurrences' = occurrences
        /\ altered' = altered /\ day' = day
    BY <1>2, <1>5, TransactionFacts DEF InTransaction
  <2>2. Distinct(tx'[p].batch)
    BY <1>2, <1>4, <1>5, TransactionFacts, AppendDistinct DEF InTransaction
  <2>3. \A d \in Dates(tx'[p].batch) :
          /\ d \notin occurrences'[cur'[p]] /\ d <= day'[p]
          /\ ~PastEnd(row'[cur'[p]].ends_on, d)
    <3>1. Dates(tx'[p].batch) = Dates(tx[p].batch) \cup {occ}
      BY <1>2, <1>4, <1>5, TransactionFacts, AppendDate
    <3>2. \A d \in Dates(tx[p].batch) :
            /\ d \notin occurrences[cur[p]] /\ d <= day[p]
            /\ ~PastEnd(row[cur[p]].ends_on, d)
      BY <1>2, TransactionFacts DEF InTransaction
    <3> QED
      BY <1>4, <2>1, <3>1, <3>2
  <2>4. /\ tx'[p].index \in row[cur[p]].occurrence_index..(row[cur[p]].occurrence_index + Cap)
        /\ Len(tx'[p].batch) <= tx'[p].index - row[cur[p]].occurrence_index
    <3>1. /\ tx'[p].index = tx[p].index + 1
          /\ Len(tx'[p].batch) = Len(tx[p].batch) + 1
      BY <1>2, <1>4, <1>5, TransactionFacts, AppendDate
    <3>2. /\ tx[p].index \in row[cur[p]].occurrence_index..(row[cur[p]].occurrence_index + Cap)
          /\ Len(tx[p].batch) <= tx[p].index - row[cur[p]].occurrence_index
      BY <1>2, TransactionFacts DEF InTransaction
    <3>3. /\ row[cur[p]].occurrence_index \in Nat /\ tx[p].index \in Nat
          /\ Len(tx[p].batch) \in Nat /\ Cap \in Nat
      BY <1>2, TransactionFacts, ConstantsAssumption
    <3>4. tx[p].index - row[cur[p]].occurrence_index < Cap
      BY <1>4
    <3> QED
      BY <3>1, <3>2, <3>3, <3>4, OneMoreIteration
  <2>5. ASSUME cur[p] \notin altered
        PROVE  /\ Len(tx'[p].batch) = tx'[p].index - row[cur[p]].occurrence_index
               /\ \A k \in DOMAIN tx'[p].batch :
                    tx'[p].batch[k] = OccurrenceDate(cur[p], row[cur[p]].occurrence_index + k - 1)
               /\ tx'[p].next_date = OccurrenceDate(cur[p], tx'[p].index)
    <3>1. /\ Len(tx[p].batch) = tx[p].index - row[cur[p]].occurrence_index
          /\ \A k \in DOMAIN tx[p].batch :
                tx[p].batch[k] = OccurrenceDate(cur[p], row[cur[p]].occurrence_index + k - 1)
      BY <1>2, <2>5, TransactionFacts DEF InTransaction
    <3>2. /\ row[cur[p]].occurrence_index \in Nat /\ tx[p].index \in Nat
          /\ tx[p].batch \in Seq(Nat) /\ occ \in Nat
      BY <1>2, <1>4, TransactionFacts
    <3>3. occ = OccurrenceDate(cur[p], row[cur[p]].occurrence_index + Len(tx[p].batch))
      <4>1. row[cur[p]].occurrence_index + Len(tx[p].batch) = tx[p].index
        BY <3>1, <3>2
      <4> QED
        BY <1>3, <4>1
    <3>4. \A k \in DOMAIN Append(tx[p].batch, occ) :
            Append(tx[p].batch, occ)[k]
              = OccurrenceDate(cur[p], row[cur[p]].occurrence_index + k - 1)
      <4>1. \A k \in DOMAIN tx[p].batch :
              tx[p].batch[k] = OccurrenceDate(cur[p], row[cur[p]].occurrence_index + k - 1)
        BY <3>1
      <4> QED
        BY <3>2, <3>3, <4>1, AppendStretch
    <3>5. /\ tx'[p].index = tx[p].index + 1
          /\ tx'[p].batch = Append(tx[p].batch, occ)
          /\ tx'[p].next_date = OccurrenceDate(cur[p], tx[p].index + 1)
      BY <1>5
    <3>6. Len(tx'[p].batch) = Len(tx[p].batch) + 1
      BY <3>2, <3>5, AppendDate
    <3>7. Len(tx'[p].batch) = tx'[p].index - row[cur[p]].occurrence_index
      <4>1. Len(tx[p].batch) = tx[p].index - row[cur[p]].occurrence_index
        BY <3>1
      <4>2. tx'[p].index = tx[p].index + 1
        BY <3>5
      <4> QED
        BY <3>2, <3>6, <4>1, <4>2
    <3> QED
      BY <3>4, <3>5, <3>7
  <2> QED
    BY <2>1, <2>2, <2>3, <2>4, <2>5 DEF InTransaction, OccurrenceDate
<1> QED
  BY <1>1, <1>2, <1>5, <1>6, LoopStepInv

\* While the cadence is unaltered the cursor is past every date it has posted, so
\* the insert of a due occurrence never finds its key taken.
LEMMA DueOccurrenceIsNew ==
  ASSUME GenerationInv, NEW p \in Runs, pc[p] = "loop", AnotherIsDue(p),
         cur[p] \notin altered
  PROVE  ~AlreadyInserted(p, OccurrenceDate(cur[p], tx[p].index))
<1> DEFINE r == cur[p]
<1>1. /\ TypeOK /\ r \in Recs /\ r \in recs
      /\ occurrences[r] = Dates(ledger[r])
      /\ ledger[r] = [k \in 1..row[r].occurrence_index |-> OccurrenceDate(r, k - 1)]
  BY TransactionFacts DEF GenerationInv, LedgerFollowsSchedule, OccurrenceRowsMatchLedger
<1>2. /\ tx[p].index \in Indexes /\ tx[p].index \in Nat
      /\ row[r].occurrence_index \in Indexes /\ row[r].occurrence_index \in Nat
      /\ MaxIndex \in Nat
  BY TransactionFacts, ConstantsAssumption DEF Row, Tx
<1>3. /\ row[r].occurrence_index <= tx[p].index
      /\ Len(tx[p].batch) = tx[p].index - row[r].occurrence_index
      /\ \A k \in DOMAIN tx[p].batch :
           tx[p].batch[k] = OccurrenceDate(r, row[r].occurrence_index + k - 1)
      /\ tx[p].batch \in Seq(Nat)
  BY <1>2, TransactionFacts, ConstantsAssumption DEF InTransaction
<1>4. \A i \in Indexes : i < tx[p].index =>
         OccurrenceDate(r, i) # OccurrenceDate(r, tx[p].index)
  <2> SUFFICES ASSUME NEW i \in Indexes, i < tx[p].index
               PROVE  OccurrenceDate(r, i) # OccurrenceDate(r, tx[p].index)
    OBVIOUS
  <2>1. OccurrenceDate(r, i) < OccurrenceDate(r, tx[p].index)
    BY <1>1, <1>2, ScheduleIncreases
  <2>2. OccurrenceDate(r, i) \in Nat /\ OccurrenceDate(r, tx[p].index) \in Nat
    BY <1>1, <1>2, ShiftAssumption DEF OccurrenceDate, TypeOK, Row, Indexes
  <2> QED
    BY <2>1, <2>2
<1>5. OccurrenceDate(r, tx[p].index) \notin occurrences[r]
  <2>1. \A k \in DOMAIN ledger[r] : k - 1 \in Indexes /\ k - 1 < tx[p].index
    BY <1>1, <1>2, <1>3 DEF Indexes
  <2>2. \A k \in DOMAIN ledger[r] : ledger[r][k] = OccurrenceDate(r, k - 1)
    BY <1>1
  <2> QED
    BY <1>1, <1>4, <2>1, <2>2 DEF Dates
<1>6. OccurrenceDate(r, tx[p].index) \notin Dates(tx[p].batch)
  <2>1. \A k \in DOMAIN tx[p].batch :
          /\ row[r].occurrence_index + k - 1 \in Indexes
          /\ row[r].occurrence_index + k - 1 < tx[p].index
    <3>1. DOMAIN tx[p].batch = 1..(tx[p].index - row[r].occurrence_index)
      BY <1>3
    <3> QED
      BY <1>2, <3>1 DEF Indexes
  <2> QED
    BY <1>3, <1>4, <2>1 DEF Dates
<1> QED
  BY <1>5, <1>6 DEF AlreadyInserted

\* Passing over a date that was posted already happens to altered recurrences only.
LEMMA PassOverOccurrenceInv ==
  ASSUME GenerationInv, NEW p \in Runs, PassOverOccurrence(p)
  PROVE  GenerationInv'
<1> USE DEF world, tables
<1>1. TypeOK'
  BY RunType DEF GenerationInv, Generate
<1>2. pc[p] = "loop" /\ AnotherIsDue(p) /\ cur[p] \in altered
  BY DueOccurrenceIsNew DEF PassOverOccurrence
<1>3. /\ tx'[p] = [index |-> tx[p].index + 1,
                   next_date |-> OccurrenceDate(cur[p], tx[p].index + 1),
                   batch |-> tx[p].batch]
      /\ \A q \in Runs \ {p} : tx'[q] = tx[q]
      /\ UNCHANGED <<world, tables, lock, pc, day, due, cur, crashes>>
  BY DEF PassOverOccurrence, AdvanceCursor, GenerationInv, TypeOK
<1>4. InTransaction(p)'
  <2>1. /\ lock'[cur'[p]] = p
        /\ row' = row /\ cur' = cur /\ occurrences' = occurrences
        /\ altered' = altered /\ day' = day
        /\ tx'[p].batch = tx[p].batch /\ tx'[p].index = tx[p].index + 1
    BY <1>2, <1>3, TransactionFacts DEF InTransaction
  <2>2. /\ tx[p].index \in row[cur[p]].occurrence_index..(row[cur[p]].occurrence_index + Cap)
        /\ Len(tx[p].batch) <= tx[p].index - row[cur[p]].occurrence_index
        /\ tx[p].index - row[cur[p]].occurrence_index < Cap
        /\ Distinct(tx[p].batch)
        /\ \A d \in Dates(tx[p].batch) :
              /\ d \notin occurrences[cur[p]] /\ d <= day[p]
              /\ ~PastEnd(row[cur[p]].ends_on, d)
    BY <1>2, TransactionFacts DEF InTransaction, AnotherIsDue, Iterations
  <2>3. /\ row[cur[p]].occurrence_index \in Nat /\ tx[p].index \in Nat
        /\ Len(tx[p].batch) \in Nat /\ Cap \in Nat
    BY <1>2, TransactionFacts, ConstantsAssumption
  <2>4. /\ tx[p].index + 1 \in row[cur[p]].occurrence_index..(row[cur[p]].occurrence_index + Cap)
        /\ Len(tx[p].batch) <= (tx[p].index + 1) - row[cur[p]].occurrence_index
    <3>1. /\ tx[p].index \in row[cur[p]].occurrence_index..(row[cur[p]].occurrence_index + Cap)
          /\ Len(tx[p].batch) <= tx[p].index - row[cur[p]].occurrence_index
          /\ tx[p].index - row[cur[p]].occurrence_index < Cap
      BY <2>2
    <3>2. tx[p].index + 1 \in row[cur[p]].occurrence_index..(row[cur[p]].occurrence_index + Cap)
      <4>1. /\ row[cur[p]].occurrence_index <= tx[p].index
            /\ tx[p].index < row[cur[p]].occurrence_index + Cap
        BY <2>3, <3>1
      <4> QED
        BY <2>3, <4>1
    <3>3. Len(tx[p].batch) <= (tx[p].index + 1) - row[cur[p]].occurrence_index
      BY <2>3, <3>1
    <3> QED
      BY <3>2, <3>3
  <2> QED
    BY <1>2, <2>1, <2>2, <2>4 DEF InTransaction
<1> QED
  BY <1>1, <1>2, <1>3, <1>4, LoopStepInv

\* A transaction that rolls back.
LEMMA RollbackInv ==
  ASSUME GenerationInv, NEW p \in Runs, pc[p] = "loop", TypeOK',
         NEW s \in {"idle", "pick"}, EndTx(p, s),
         UNCHANGED <<world, tables, day>>
  PROVE  GenerationInv'
<1> USE DEF world, tables
<1>1. /\ TypeOK
      /\ \A r \in Recs : RecurrenceInv(r)
      /\ \A q \in Runs : day[q] <= today
  BY InvByParts
<1>2. \A q \in Runs \ {p} : pc'[q] = pc[q] /\ tx'[q] = tx[q] /\ cur'[q] = cur[q]
  BY <1>1 DEF EndTx, TypeOK
<1>3. \A r \in Recs \ {cur[p]} : lock'[r] = lock[r]
  BY <1>1 DEF EndTx, TypeOK
<1>4. \A q \in Runs \ {p} : pc'[q] = "loop" => InTransaction(q)'
  BY <1>2, <1>3, TransactionFacts, OtherRuns
<1>5. pc'[p] # "loop"
  BY <1>1 DEF EndTx, TypeOK
<1>6. \A r \in Recs : RecurrenceInv(r)'
  <2> SUFFICES ASSUME NEW r \in Recs
               PROVE  RecurrenceInv(r)'
    OBVIOUS
  <2>1. /\ row' = row /\ occurrences' = occurrences /\ ledger' = ledger /\ recs' = recs
        /\ created' = created /\ altered' = altered /\ today' = today
    OBVIOUS
  <2>2. CASE r = cur[p]
    BY <1>1, <2>1, <2>2, TransactionFacts DEF RecurrenceInv, OccurrenceDate
  <2>3. CASE r # cur[p]
    BY <1>1, <1>3, <2>3, RecurrenceFrame
  <2> QED
    BY <2>2, <2>3
<1> QED
  BY <1>1, <1>4, <1>5, <1>6, InvFromParts

\* What a COMMIT does to the recurrence it holds.
LEMMA CommittedRecurrence ==
  ASSUME GenerationInv, NEW p \in Runs, CommitRow(p), NEW r, r = cur[p]
  PROVE  RecurrenceInv(r)'
<1> USE DEF world, tables
<1>1. TypeOK /\ RecurrenceInv(r) /\ r \in recs /\ r \in Recs /\ pc[p] = "loop"
  BY InvByParts, TransactionFacts DEF CommitRow
<1>2. /\ row'[r] = [row[r] EXCEPT !.occurrence_index = tx[p].index,
                                  !.next_date = tx[p].next_date]
      /\ occurrences'[r] = occurrences[r] \cup Dates(tx[p].batch)
      /\ ledger'[r] = ledger[r] \o tx[p].batch
      /\ UNCHANGED <<recs, created, altered, today>>
  BY <1>1 DEF CommitRow, TypeOK
<1>3. /\ row'[r].occurrence_index = tx[p].index
      /\ row'[r].next_date = tx[p].next_date
      /\ row'[r].starts_on = row[r].starts_on
      /\ row'[r].cadence = row[r].cadence
  <2>1. row[r] \in Row
    BY <1>1, TransactionFacts
  <2> QED
    BY <1>2, <2>1 DEF Row
<1>4. /\ ledger[r] \in Seq(Nat) /\ tx[p].batch \in Seq(Nat)
      /\ row[r].occurrence_index \in Nat /\ tx[p].index \in Nat
      /\ day[p] \in Nat /\ today \in Nat /\ day[p] <= today
  BY <1>1, TransactionFacts DEF TypeOK
<1>5. /\ Distinct(ledger[r]) /\ Distinct(tx[p].batch)
      /\ occurrences[r] = Dates(ledger[r])
      /\ \A d \in Dates(ledger[r]) : d <= today
      /\ \A d \in Dates(tx[p].batch) : d \notin occurrences[r] /\ d <= day[p] /\ d \in Nat
  <2>1. \A d \in Dates(tx[p].batch) : d \in Nat
    BY <1>4 DEF Dates
  <2> QED
    BY <1>1, <2>1, TransactionFacts DEF RecurrenceInv, InTransaction
<1>6. Distinct(ledger'[r])
  BY <1>2, <1>4, <1>5, ConcatDistinct
<1>7. Dates(ledger'[r]) = Dates(ledger[r]) \cup Dates(tx[p].batch)
  BY <1>2, <1>4, ConcatDates
<1>8. \A d \in Dates(tx[p].batch) : d <= today
  BY <1>4, <1>5
<1>9. ASSUME r \notin altered
      PROVE  ledger'[r] = [k \in 1..tx[p].index |-> OccurrenceDate(r, k - 1)]
  <2>1. /\ ledger[r] = [k \in 1..row[r].occurrence_index |-> OccurrenceDate(r, k - 1)]
        /\ Len(tx[p].batch) = tx[p].index - row[r].occurrence_index
        /\ \A k \in DOMAIN tx[p].batch :
              tx[p].batch[k] = OccurrenceDate(r, row[r].occurrence_index + k - 1)
        /\ row[r].occurrence_index <= tx[p].index
    BY <1>1, <1>4, <1>9, TransactionFacts, ConstantsAssumption DEF RecurrenceInv, InTransaction
  <2>2. /\ row[r].occurrence_index \in Nat /\ tx[p].index \in Nat
        /\ ledger[r] \in Seq(Nat) /\ tx[p].batch \in Seq(Nat)
    BY <1>4
  <2>3. /\ Len(ledger[r]) = row[r].occurrence_index
        /\ \A k \in DOMAIN ledger[r] : ledger[r][k] = OccurrenceDate(r, k - 1)
    BY <2>1, <2>2
  <2>4. /\ Len(ledger[r] \o tx[p].batch) = tx[p].index
        /\ \A k \in 1..tx[p].index :
              (ledger[r] \o tx[p].batch)[k] = OccurrenceDate(r, k - 1)
    <3>1. Len(ledger[r]) + Len(tx[p].batch) = tx[p].index
      BY <2>1, <2>2, <2>3
    <3>2. \A k \in DOMAIN tx[p].batch : tx[p].batch[k] = OccurrenceDate(r, Len(ledger[r]) + k - 1)
      BY <2>1, <2>3
    <3>3. \A k \in 1..(Len(ledger[r]) + Len(tx[p].batch)) :
             (ledger[r] \o tx[p].batch)[k] = OccurrenceDate(r, k - 1)
      BY <2>2, <2>3, <3>2, ConcatStretch
    <3>4. Len(ledger[r] \o tx[p].batch) = Len(ledger[r]) + Len(tx[p].batch)
      BY <2>2
    <3> QED
      BY <3>1, <3>3, <3>4
  <2>5. ledger'[r] \in Seq(Nat) /\ Len(ledger'[r]) = tx[p].index
    BY <1>2, <2>2, <2>4
  <2>6. ledger'[r] = [k \in 1..tx[p].index |-> ledger'[r][k]]
    BY <2>5
  <2>7. \A k \in 1..tx[p].index : ledger'[r][k] = OccurrenceDate(r, k - 1)
    <3>1. ledger'[r] = ledger[r] \o tx[p].batch
      BY <1>2
    <3> QED
      BY <2>4, <3>1
  <2> QED
    BY <2>6, <2>7
<1>10. r \notin altered => tx[p].next_date = OccurrenceDate(r, tx[p].index)
  BY <1>1, TransactionFacts DEF InTransaction
<1>11. occurrences'[r] = Dates(ledger'[r]) /\ \A d \in Dates(ledger'[r]) : d <= today'
  BY <1>2, <1>5, <1>7, <1>8
<1>12. ASSUME r \notin altered'
       PROVE  /\ ledger'[r] = [k \in 1..row'[r].occurrence_index |-> OccurrenceDate(r, k - 1)']
              /\ row'[r].next_date = OccurrenceDate(r, row[r].occurrence_index)'
  <2>1. r \notin altered
    BY <1>2, <1>12
  <2>2. \A i : OccurrenceDate(r, i)' = OccurrenceDate(r, i)
    BY <1>3 DEF OccurrenceDate
  <2> QED
    BY <1>3, <1>9, <1>10, <2>1, <2>2 DEF OccurrenceDate
<1>13. r \in recs' /\ (r \in created' <=> r \in created)
  BY <1>1, <1>2
<1>14. r \in created
  BY <1>1 DEF TypeOK
<1> QED
  BY <1>6, <1>11, <1>12, <1>13, <1>14 DEF RecurrenceInv

\* A COMMIT keeps the invariant.
LEMMA CommitRowInv ==
  ASSUME GenerationInv, NEW p \in Runs, CommitRow(p)
  PROVE  GenerationInv'
<1> USE DEF world, tables
<1>1. TypeOK' /\ pc[p] = "loop"
  BY RunType DEF GenerationInv, Generate, CommitRow
<1>2. /\ TypeOK
      /\ \A r \in Recs : RecurrenceInv(r)
      /\ \A q \in Runs : day[q] <= today
  BY InvByParts
<1>3. UNCHANGED <<today, recs, created, altered, day>>
  BY DEF CommitRow
<1>4. \A r \in Recs \ {cur[p]} :
        /\ row'[r] = row[r] /\ occurrences'[r] = occurrences[r]
        /\ ledger'[r] = ledger[r] /\ lock'[r] = lock[r]
  BY <1>2 DEF CommitRow, EndTx, TypeOK
<1>5. /\ pc'[p] # "loop"
      /\ \A q \in Runs \ {p} : pc'[q] = pc[q] /\ tx'[q] = tx[q] /\ cur'[q] = cur[q]
  BY <1>2 DEF CommitRow, EndTx, TypeOK
<1>6. \A q \in Runs \ {p} : pc'[q] = "loop" => InTransaction(q)'
  <2>1. cur[p] \in Recs /\ \A q \in Runs \ {p} : pc[q] = "loop" => cur[q] # cur[p]
    BY <1>1, TransactionFacts
  <2>2. \A q \in Runs \ {p} :
           pc'[q] = pc[q] /\ tx'[q] = tx[q] /\ cur'[q] = cur[q] /\ day'[q] = day[q]
    BY <1>3, <1>5
  <2> QED
    BY <1>3, <1>4, <2>1, <2>2, OtherRuns
<1>7. \A r \in Recs : RecurrenceInv(r)'
  <2> SUFFICES ASSUME NEW r \in Recs
               PROVE  RecurrenceInv(r)'
    OBVIOUS
  <2>1. CASE r = cur[p]
    BY <2>1, CommittedRecurrence
  <2>2. CASE r # cur[p]
    BY <1>2, <1>3, <1>4, <2>2, RecurrenceFrame
  <2> QED
    BY <2>1, <2>2
<1> QED
  BY <1>1, <1>2, <1>3, <1>5, <1>6, <1>7, InvFromParts

\* An invocation that dies anywhere keeps it.
LEMMA CrashInv ==
  ASSUME GenerationInv, NEW p \in Runs, Crash(p)
  PROVE  GenerationInv'
<1> USE DEF world, tables
<1>1. TypeOK'
  BY RunType DEF GenerationInv
<1>2. CASE pc[p] = "loop"
  BY <1>1, <1>2, RollbackInv DEF Crash
<1>3. CASE pc[p] # "loop"
  <2>1. /\ TypeOK
        /\ \A r \in Recs : RecurrenceInv(r)
        /\ \A q \in Runs : day[q] <= today
        /\ \A q \in Runs : pc[q] = "loop" => InTransaction(q)
    BY InvByParts
  <2>2. UNCHANGED <<world, tables, day, lock, cur, tx>>
    BY <1>3 DEF Crash
  <2>3. pc'[p] # "loop" /\ \A q \in Runs \ {p} : pc'[q] = pc[q]
    BY <1>3, <2>1 DEF Crash, TypeOK
  <2>4. \A q \in Runs : pc'[q] = "loop" => InTransaction(q)'
    BY <2>1, <2>2, <2>3, TransactionFrame
  <2>5. \A r \in Recs : RecurrenceInv(r)'
    BY <2>1, <2>2, RecurrenceFrame
  <2> QED
    BY <1>1, <2>1, <2>2, <2>4, <2>5, InvFromParts
<1> QED
  BY <1>2, <1>3

\* Every step of a run keeps it.
LEMMA RunInv ==
  ASSUME GenerationInv, NEW p \in Runs, Generate(p) \/ Crash(p)
  PROVE  GenerationInv'
<1>1. CASE FailOccurrence(p)
  <2>1. TypeOK'
    BY <1>1, RunType DEF GenerationInv, Generate
  <2> QED
    BY <1>1, <2>1, RollbackInv DEF FailOccurrence
<1> QED
  BY <1>1, ScanInv, LockRowInv, PostOccurrenceInv, PassOverOccurrenceInv, CommitRowInv,
     CrashInv DEF Generate

\* The database starts empty and every run idle.
LEMMA InitInv == Init => GenerationInv
<1> SUFFICES ASSUME Init PROVE GenerationInv
  OBVIOUS
<1>1. TypeOK
  BY InitType
<1>2. today \in Nat
  BY DaysAreNat DEF Init
<1>3. Dates(<<>>) = {} /\ Distinct(<<>>)
  BY DEF Dates, Distinct
<1>4. /\ \A r \in Recs : ledger[r] = <<>> /\ occurrences[r] = {} /\ lock[r] = Free
      /\ recs = {} /\ altered = {}
      /\ \A p \in Runs : day[p] = today /\ pc[p] = "idle"
  BY DEF Init
<1> QED
  BY <1>1, <1>2, <1>3, <1>4 DEF GenerationInv, NoDuplicatePosting, LedgerFollowsSchedule,
     OccurrenceRowsMatchLedger, NeverEarly

\* Whatever overlaps, dies, is patched or deleted, generation stays in the states the
\* inductive invariant describes (generation.py: one locked row, one transaction, one
\* COMMIT per recurrence).
THEOREM GenerationInvariant == Spec => []GenerationInv
<1>1. GenerationInv /\ [Next]_vars => GenerationInv'
  <2> SUFFICES ASSUME GenerationInv, [Next]_vars PROVE GenerationInv'
    OBVIOUS
  <2>1. CASE UNCHANGED vars
    <3> USE DEF vars, world, tables, runVars
    <3>1. TypeOK'
      BY <2>1 DEF GenerationInv, TypeOK
    <3>2. \A r \in Recs : RecurrenceInv(r)'
      BY <2>1, InvByParts, RecurrenceFrame
    <3>3. \A q \in Runs : pc'[q] = "loop" => InTransaction(q)'
      BY <2>1, InvByParts, TransactionFrame
    <3>4. \A q \in Runs : day'[q] <= today'
      BY <2>1, InvByParts
    <3> QED
      BY <3>1, <3>2, <3>3, <3>4, InvFromParts
  <2> QED
    BY <2>1, RequestInv, WorldInv, RunInv DEF Next
<1> QED
  BY <1>1, InitInv, PTL DEF Spec

-----------------------------------------------------------------------------
(* The safety invariants. *)

\* No date of a recurrence is ever posted twice (generation.py, "Idempotency").
THEOREM PostedOnce == Spec => []NoDuplicatePosting
  BY GenerationInvariant, PTL DEF GenerationInv

\* With its cadence left alone, a recurrence has posted exactly the first
\* occurrence_index dates of its schedule (generation.py, "Catch-up").
THEOREM SchedulePrefix == Spec => []LedgerFollowsSchedule
  BY GenerationInvariant, PTL DEF GenerationInv

\* Occurrence rows and the transactions posted commit together or not at all.
THEOREM RowsAndPostingsAgree == Spec => []OccurrenceRowsMatchLedger
  BY GenerationInvariant, PTL DEF GenerationInv

-----------------------------------------------------------------------------
(* Steps. *)

\* Only a COMMIT writes a cursor that is there, or a ledger.
LEMMA WhoWrites ==
  ASSUME GenerationInv, [Next]_vars
  PROVE  \/ \E p \in Runs : CommitRow(p)
         \/ /\ ledger' = ledger
            /\ \A r \in recs \cap recs' :
                 row'[r].occurrence_index = row[r].occurrence_index
<1> USE DEF vars, world, tables, runVars
<1>1. CASE UNCHANGED vars
  BY <1>1
<1>2. ASSUME NEW r \in Recs, Request(r)
      PROVE  /\ ledger' = ledger
             /\ \A s \in recs \cap recs' :
                  row'[s].occurrence_index = row[s].occurrence_index
  <2>0. TypeOK
    BY DEF GenerationInv
  <2>1. CASE CreateRecurring(r)
    BY <2>0, <2>1 DEF CreateRecurring, TypeOK
  <2>2. CASE BeginRequest(r) \/ AbortRequest(r)
    BY <2>2 DEF BeginRequest, AbortRequest
  <2>3. CASE PatchRecurring(r)
    <3>1. PICK c \in Cadences, e \in Ends, ok \in BOOLEAN :
            row' = [row EXCEPT ![r] = [@ EXCEPT !.cadence = c, !.ends_on = e, !.postable = ok]]
      BY <2>3 DEF PatchRecurring
    <3>2. row[r] \in Row
      BY <2>0 DEF TypeOK
    <3>3. row'[r] = [row[r] EXCEPT !.cadence = c, !.ends_on = e, !.postable = ok]
      BY <2>0, <3>1 DEF TypeOK
    <3>4. row'[r].occurrence_index = row[r].occurrence_index
      BY <3>2, <3>3 DEF Row
    <3>5. \A s \in Recs \ {r} : row'[s] = row[s]
      BY <2>0, <3>1 DEF TypeOK
    <3> QED
      BY <2>0, <2>3, <3>4, <3>5 DEF PatchRecurring, TypeOK
  <2>4. CASE DeleteRecurring(r)
    BY <2>0, <2>4 DEF DeleteRecurring, TypeOK
  <2> QED
    BY <1>2, <2>1, <2>2, <2>3, <2>4 DEF Request
<1>3. CASE World
  BY <1>3 DEF World, Tick, LeaveWorkspace, RejoinWorkspace, SetWorkspaceActive
<1>4. ASSUME NEW p \in Runs, Generate(p) \/ Crash(p), ~CommitRow(p)
      PROVE  ledger' = ledger /\ row' = row
  BY <1>4 DEF Generate, Crash, StartRun, FinishRun, SkipRow, PauseRow, LockRow,
              PostOccurrence, PassOverOccurrence, FailOccurrence
<1> QED
  BY <1>1, <1>2, <1>3, <1>4 DEF Next

\* No step moves a cursor back: the row lock keeps a stale run from committing over a
\* later one.
THEOREM CursorMonotone == Spec => CursorNeverMovesBack
<1>1. ASSUME GenerationInv, [Next]_vars
      PROVE  \A r \in recs \cap recs' : row'[r].occurrence_index >= row[r].occurrence_index
  <2> SUFFICES ASSUME NEW r \in recs \cap recs'
               PROVE  row'[r].occurrence_index >= row[r].occurrence_index
    OBVIOUS
  <2>0. TypeOK /\ r \in Recs /\ row[r] \in Row /\ row[r].occurrence_index \in Nat
    BY <1>1, ConstantsAssumption DEF GenerationInv, TypeOK, Row, Indexes
  <2>1. ASSUME NEW p \in Runs, CommitRow(p)
        PROVE  row'[r].occurrence_index >= row[r].occurrence_index
    <3>1. pc[p] = "loop"
      BY <2>1 DEF CommitRow
    <3>2. CASE r = cur[p]
      <4>1. row'[r] = [row[r] EXCEPT !.occurrence_index = tx[p].index,
                                     !.next_date = tx[p].next_date]
        BY <2>0, <2>1, <3>2 DEF CommitRow, TypeOK
      <4>2. row'[r].occurrence_index = tx[p].index
        BY <2>0, <4>1 DEF Row
      <4>3. tx[p].index \in row[r].occurrence_index..(row[r].occurrence_index + Cap)
        BY <1>1, <3>1, <3>2, TransactionFacts DEF InTransaction
      <4> QED
        BY <2>0, <4>2, <4>3, ConstantsAssumption
    <3>3. CASE r # cur[p]
      BY <2>0, <2>1, <3>3 DEF CommitRow, TypeOK
    <3> QED
      BY <3>2, <3>3
  <2>2. CASE row'[r].occurrence_index = row[r].occurrence_index
    BY <2>0, <2>2
  <2> QED
    BY <1>1, <2>1, <2>2, WhoWrites
<1> QED
  BY <1>1, GenerationInvariant, PTL DEF Spec, CursorNeverMovesBack

\* Nothing is posted past the ends_on the row has when it is posted.
THEOREM EndDateHolds == Spec => EndDateRespected
<1>1. ASSUME GenerationInv, [Next]_vars
      PROVE  \A r \in Recs : \A k \in DOMAIN ledger'[r] \ DOMAIN ledger[r] :
                ~PastEnd(row[r].ends_on, ledger'[r][k])
  <2> SUFFICES ASSUME NEW r \in Recs, NEW k \in DOMAIN ledger'[r] \ DOMAIN ledger[r]
               PROVE  ~PastEnd(row[r].ends_on, ledger'[r][k])
    OBVIOUS
  <2>1. PICK p \in Runs : CommitRow(p)
    BY <1>1, WhoWrites
  <2>2. pc[p] = "loop" /\ ledger[r] \in Seq(Nat) /\ tx[p].batch \in Seq(Nat)
    BY <1>1, <2>1, TransactionFacts DEF CommitRow, GenerationInv, TypeOK
  <2>3. r = cur[p] /\ ledger'[r] = ledger[r] \o tx[p].batch
    BY <1>1, <2>1 DEF CommitRow, GenerationInv, TypeOK
  <2>4. ledger'[r][k] \in Dates(tx[p].batch)
    <3>1. k \in DOMAIN (ledger[r] \o tx[p].batch) /\ k \notin DOMAIN ledger[r]
      BY <2>3
    <3>2. /\ k - Len(ledger[r]) \in DOMAIN tx[p].batch
          /\ (ledger[r] \o tx[p].batch)[k] = tx[p].batch[k - Len(ledger[r])]
      BY <2>2, <3>1, ConcatDates
    <3> QED
      BY <2>3, <3>2 DEF Dates
  <2> QED
    BY <1>1, <2>2, <2>3, <2>4, TransactionFacts DEF InTransaction
<1> QED
  BY <1>1, GenerationInvariant, PTL DEF Spec, EndDateRespected

\* A batch of at most cap dates.
LEMMA BatchLength ==
  ASSUME NEW n \in Nat, NEW cap \in Nat, NEW b \in 1..cap
  PROVE  n + b \in (n + 1)..(n + cap)
  OBVIOUS

\* The batch a COMMIT appends is one that RecurringLedger allows.
LEMMA CommitPostsBatch ==
  ASSUME GenerationInv, NEW p \in Runs, CommitRow(p)
  PROVE  UNCHANGED <<today, ledger>> \/ \E r \in Recs : Promise!PostBatch(r)
<1> DEFINE r == cur[p]
<1>1. pc[p] = "loop" /\ r \in Recs /\ today' = today
  BY TransactionFacts DEF CommitRow, world
<1>2. /\ ledger \in [Recs -> Seq(Nat)] /\ tx[p].batch \in Seq(Nat)
      /\ ledger' = [ledger EXCEPT ![r] = ledger[r] \o tx[p].batch]
      /\ ledger'[r] = ledger[r] \o tx[p].batch
  BY <1>1, TransactionFacts DEF CommitRow, GenerationInv, TypeOK
<1>3. CASE tx[p].batch = <<>>
  <2>1. ledger[r] \o <<>> = ledger[r]
    BY <1>1, <1>2
  <2>2. ledger' = ledger
    BY <1>2, <1>3, <2>1
  <2> QED
    BY <1>1, <2>2
<1>4. CASE tx[p].batch # <<>>
  <2>1. Len(tx[p].batch) \in 1..Cap
    <3>1. /\ tx[p].index \in row[r].occurrence_index..(row[r].occurrence_index + Cap)
          /\ Len(tx[p].batch) <= tx[p].index - row[r].occurrence_index
          /\ row[r].occurrence_index \in Nat /\ tx[p].index \in Nat /\ Cap \in Nat
      BY <1>1, TransactionFacts, ConstantsAssumption DEF InTransaction
    <3>2. Len(tx[p].batch) \in Nat /\ Len(tx[p].batch) # 0
      BY <1>2, <1>4
    <3> QED
      BY <3>1, <3>2
  <2>2. Len(ledger'[r]) \in (Len(ledger[r]) + 1)..(Len(ledger[r]) + Cap)
    <3>1. ledger[r] \in Seq(Nat) /\ Len(ledger[r]) \in Nat /\ Cap \in Nat
      BY <1>1, <1>2, ConstantsAssumption
    <3>2. Len(ledger[r] \o tx[p].batch) = Len(ledger[r]) + Len(tx[p].batch)
      BY <1>2, <3>1, ConcatDates
    <3>3. Len(ledger'[r]) = Len(ledger[r]) + Len(tx[p].batch)
      BY <1>2, <3>2
    <3> QED
      BY <2>1, <3>1, <3>3, BatchLength
  <2>3. \A k \in DOMAIN ledger[r] : ledger'[r][k] = ledger[r][k]
    <3>1. ledger[r] \in Seq(Nat)
      BY <1>1, <1>2
    <3>2. \A k \in DOMAIN ledger[r] : (ledger[r] \o tx[p].batch)[k] = ledger[r][k]
      BY <1>2, <3>1, ConcatDates
    <3> QED
      BY <1>2, <3>2
  <2>4. RecurrenceInv(cur[p])
    BY <1>1, InvByParts
  <2>5. PICK s \in Recs : s = cur[p]
    BY <1>1
  <2>6. RecurrenceInv(s)'
    BY <2>5, CommittedRecurrence
  <2>7. Distinct(ledger'[r]) /\ \A d \in Dates(ledger'[r]) : d <= today
    BY <1>1, <2>5, <2>6 DEF RecurrenceInv
  <2>8. Promise!GrowsTo(ledger[r], ledger'[r])
    BY <2>2, <2>3, <2>7 DEF Promise!GrowsTo, Promise!Distinct, Distinct, Dates
  <2> QED
    BY <1>1, <1>2, <2>8 DEF Promise!PostBatch
<1> QED
  BY <1>3, <1>4

\* Generation implements RecurringLedger: each step is one batch of at most Cap new,
\* reached dates for one recurrence, a day passing, or nothing a ledger shows.
THEOREM KeepsLedgerPromise == Spec => LedgerPromise
<1>1. Init => Promise!Init
  BY DEF Init, Promise!Init
<1>2. ASSUME GenerationInv, [Next]_vars
      PROVE  [Promise!Next]_<<today, ledger>>
  <2>1. CASE \E p \in Runs : CommitRow(p)
    BY <1>2, <2>1, CommitPostsBatch DEF Promise!Next
  <2>2. CASE ledger' = ledger /\ today' # today
    <3> USE DEF world, tables, runVars
    <3>1. ASSUME NEW r \in Recs, Request(r) PROVE today' = today
      BY <3>1 DEF Request, CreateRecurring, BeginRequest, PatchRecurring, DeleteRecurring,
                  AbortRequest
    <3>2. ASSUME NEW p \in Runs, Generate(p) \/ Crash(p) PROVE today' = today
      BY <3>2 DEF Generate, Crash, StartRun, FinishRun, SkipRow, PauseRow, LockRow,
                  PostOccurrence, PassOverOccurrence, FailOccurrence, CommitRow
    <3>3. World
      BY <1>2, <2>2, <3>1, <3>2 DEF Next, vars
    <3>4. Tick
      BY <2>2, <3>3 DEF World, LeaveWorkspace, RejoinWorkspace, SetWorkspaceActive
    <3> QED
      BY <2>2, <3>4 DEF Tick, Promise!Next, Promise!NextDay
  <2>3. CASE ledger' = ledger /\ today' = today
    BY <2>3
  <2> QED
    BY <1>2, <2>1, <2>2, <2>3, WhoWrites
<1> QED
  BY <1>1, <1>2, GenerationInvariant, PTL DEF Spec, LedgerPromise, Promise!Spec
=============================================================================
