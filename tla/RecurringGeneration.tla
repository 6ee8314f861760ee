-------------------------- MODULE RecurringGeneration --------------------------
(***************************************************************************)
(* Occurrence generation (backend/app/recurring/generation.py, Pass A of   *)
(* backend/app/scheduler.py) together with everything that runs beside it: *)
(* overlapping scheduler invocations, invocations that die in the middle,  *)
(* the HTTP handlers that create, patch and delete a recurrence, members   *)
(* who leave and come back, and the passing of days.                       *)
(*                                                                         *)
(* PostgreSQL runs at READ COMMITTED.  A row of recurring_transaction is   *)
(* protected by its row lock (SELECT ... FOR UPDATE SKIP LOCKED in a run,  *)
(* the UPDATE or DELETE of a request); what a run writes stays in tx[p]    *)
(* until its one COMMIT per recurrence.                                    *)
(***************************************************************************)
EXTENDS Naturals, Sequences, FiniteSets

CONSTANTS
    Recs,            \* recurrence ids (one uuid each, never used twice)
    Runs,            \* scheduler invocations that may overlap
    Users,           \* people; Creator[r] is the row's created_by_user_id
    Creator,
    Days,            \* the ordinals `today` can take (bounds the clock)
    Anchors,         \* values of starts_on
    Cadences,        \* values of (period, repeat_every)
    EndDates,        \* values of ends_on other than NULL
    MaxIndex,        \* bound on occurrence_index within Days
    Cap,             \* generation_max_catchup_per_run
    MaxCrashes,      \* bound on the invocations that die
    Shift(_, _, _),  \* Shift(a, c, i) = shift(a, c.period, c.repeat_every * i)
    NoEnd,           \* ends_on IS NULL
    Free, Http       \* row-lock states other than "held by run p"

ASSUME ConstantsAssumption ==
    /\ Recs # {} /\ Anchors # {} /\ Cadences # {}
    /\ Creator \in [Recs -> Users]
    /\ Days \subseteq Nat /\ EndDates \subseteq Nat
    /\ MaxIndex \in Nat /\ Cap \in Nat \ {0} /\ MaxCrashes \in Nat
    /\ Free \notin Runs /\ Http \notin Runs /\ Free # Http
    /\ NoEnd \notin EndDates

\* What `shift` guarantees on the horizon: dates, each later than the one before,
\* the index bound out of the clock's reach, and starts_on itself at index 0.
ASSUME ShiftAssumption ==
    \A a \in Anchors, c \in Cadences :
        /\ \A i \in 0..MaxIndex : Shift(a, c, i) \in Nat
        /\ \A i, j \in 0..MaxIndex : i < j => Shift(a, c, i) < Shift(a, c, j)
        /\ \A d \in Days : d < Shift(a, c, MaxIndex)
        /\ \A b \in Cadences : Shift(a, b, 0) = Shift(a, c, 0)

VARIABLES
    today,        \* the date of the clock
    isActive,     \* workspace.is_active
    members,      \* users with a workspace_member row
    recs,         \* recurring_transaction: the ids present
    created,      \* ids ever inserted
    row,          \* recurring_transaction: the columns
    lock,         \* the row lock of each recurrence
    occurrences,  \* recurring_occurrence: the dates present, per recurrence
    pc, day, due, \* each run: where it is, its `today`, the ids left of its scan
    cur, tx,      \* each run: the recurrence it holds, its open transaction
    crashes,
    ledger,       \* history: dates of the transactions generation committed, in order
    altered       \* history: recurrences whose period or repeat_every was patched

tables  == <<recs, created, row, occurrences, ledger, altered>>
runVars == <<pc, day, due, cur, tx>>
world   == <<today, isActive, members>>
vars == <<world, tables, lock, runVars, crashes>>

Indexes == 0..MaxIndex
Ends == EndDates \cup {NoEnd}

Row == [starts_on : Anchors, cadence : Cadences, occurrence_index : Indexes,
        next_date : Nat, ends_on : Ends,
        postable : BOOLEAN]  \* create_transaction accepts this row: its account is
                             \* visible to the creator, its splits sum to its amount
Tx == [index : Indexes, next_date : Nat, batch : Seq(Nat)]

\* What an unused id and an idle run hold.
NoRow == [starts_on |-> CHOOSE a \in Anchors : TRUE,
          cadence |-> CHOOSE c \in Cadences : TRUE,
          occurrence_index |-> 0, next_date |-> 0, ends_on |-> NoEnd, postable |-> TRUE]
NoTx  == [index |-> 0, next_date |-> 0, batch |-> <<>>]
NoRec == CHOOSE r \in Recs : TRUE

OccurrenceDate(r, i) == Shift(row[r].starts_on, row[r].cadence, i)

Dates(s) == {s[k] : k \in DOMAIN s}

Distinct(s) == \A i, j \in DOMAIN s : i # j => s[i] # s[j]

PastEnd(e, d) == e # NoEnd /\ d > e

TypeOK ==
    /\ today \in Days /\ isActive \in BOOLEAN /\ members \subseteq Users
    /\ recs \subseteq created /\ created \subseteq Recs /\ altered \subseteq Recs
    /\ row \in [Recs -> Row]
    /\ lock \in [Recs -> Runs \cup {Free, Http}]
    /\ occurrences \in [Recs -> SUBSET Nat]
    /\ pc \in [Runs -> {"idle", "pick", "loop"}]
    /\ day \in [Runs -> Days]
    /\ due \in [Runs -> SUBSET Recs]
    /\ cur \in [Runs -> Recs]
    /\ tx \in [Runs -> Tx]
    /\ crashes \in 0..MaxCrashes
    /\ ledger \in [Recs -> Seq(Nat)]

Init ==
    /\ today \in Days /\ isActive = TRUE /\ members = Users
    /\ recs = {} /\ created = {} /\ altered = {}
    /\ row = [r \in Recs |-> NoRow]
    /\ lock = [r \in Recs |-> Free]
    /\ occurrences = [r \in Recs |-> {}]
    /\ pc = [p \in Runs |-> "idle"]
    /\ day = [p \in Runs |-> today]
    /\ due = [p \in Runs |-> {}]
    /\ cur = [p \in Runs |-> NoRec]
    /\ tx = [p \in Runs |-> NoTx]
    /\ crashes = 0
    /\ ledger = [r \in Recs |-> <<>>]

-----------------------------------------------------------------------------
(***************************************************************************)
(* Requests.  require_membership lets a member of an active workspace      *)
(* write; the row lock is taken by the UPDATE or DELETE statement and kept *)
(* to the COMMIT, which waits for a run that holds the row.                *)
(***************************************************************************)

\* POST /api/recurring: next_date starts at starts_on, the cursor at 0.
CreateRecurring(r) ==
    /\ r \notin created /\ isActive /\ Creator[r] \in members
    /\ \E a \in Anchors, c \in Cadences, e \in Ends :
          /\ ~PastEnd(e, Shift(a, c, 0))
          /\ row' = [row EXCEPT ![r] =
                       [starts_on |-> a, cadence |-> c, occurrence_index |-> 0,
                        next_date |-> Shift(a, c, 0), ends_on |-> e, postable |-> TRUE]]
    /\ recs' = recs \cup {r}
    /\ created' = created \cup {r}
    /\ UNCHANGED <<world, occurrences, ledger, altered, lock, runVars, crashes>>

BeginRequest(r) ==
    /\ r \in recs /\ isActive /\ members # {}
    /\ lock[r] = Free
    /\ lock' = [lock EXCEPT ![r] = Http]
    /\ UNCHANGED <<world, tables, runVars, crashes>>

\* PATCH: period, repeat_every, ends_on, and the account, amount and splits, which
\* together decide whether create_transaction will accept the row.  starts_on,
\* occurrence_index and next_date are never written.
PatchRecurring(r) ==
    /\ lock[r] = Http
    /\ \E c \in Cadences, e \in Ends, ok \in BOOLEAN :
          /\ ~PastEnd(e, OccurrenceDate(r, 0))
          /\ row' = [row EXCEPT ![r] = [@ EXCEPT !.cadence = c, !.ends_on = e, !.postable = ok]]
          /\ altered' = IF c = row[r].cadence THEN altered ELSE altered \cup {r}
    /\ lock' = [lock EXCEPT ![r] = Free]
    /\ UNCHANGED <<world, recs, created, occurrences, ledger, runVars, crashes>>

\* DELETE: the occurrence rows go with the recurrence (ON DELETE CASCADE), the
\* transactions it generated stay.
DeleteRecurring(r) ==
    /\ lock[r] = Http
    /\ recs' = recs \ {r}
    /\ row' = [row EXCEPT ![r] = NoRow]
    /\ occurrences' = [occurrences EXCEPT ![r] = {}]
    /\ lock' = [lock EXCEPT ![r] = Free]
    /\ UNCHANGED <<world, created, ledger, altered, runVars, crashes>>

\* The request fails (422, 404, a closed connection) and its transaction rolls back.
AbortRequest(r) ==
    /\ lock[r] = Http
    /\ lock' = [lock EXCEPT ![r] = Free]
    /\ UNCHANGED <<world, tables, runVars, crashes>>

-----------------------------------------------------------------------------
(* The rest of the world. *)

Tick ==
    /\ \E d \in Days : d > today /\ today' = d
    /\ UNCHANGED <<isActive, members, tables, lock, runVars, crashes>>

\* leave_workspace or remove_member, and accept_invite when the user returns.
LeaveWorkspace(u) ==
    /\ u \in members
    /\ members' = members \ {u}
    /\ UNCHANGED <<today, isActive, tables, lock, runVars, crashes>>

RejoinWorkspace(u) ==
    /\ u \notin members
    /\ members' = members \cup {u}
    /\ UNCHANGED <<today, isActive, tables, lock, runVars, crashes>>

\* deactivate_workspace and reactivate_workspace, by a platform admin.
SetWorkspaceActive(b) ==
    /\ isActive # b
    /\ isActive' = b
    /\ UNCHANGED <<today, members, tables, lock, runVars, crashes>>

-----------------------------------------------------------------------------
(***************************************************************************)
(* A scheduler run.  The due-set scan is an unlocked snapshot; each id of  *)
(* it is then processed in a transaction of its own.                       *)
(***************************************************************************)

\* handler reads the clock once, run scans the ids with next_date <= today.
StartRun(p) ==
    /\ pc[p] = "idle"
    /\ day' = [day EXCEPT ![p] = today]
    /\ due' = [due EXCEPT ![p] = {r \in recs : row[r].next_date <= today}]
    /\ pc' = [pc EXCEPT ![p] = "pick"]
    /\ UNCHANGED <<world, tables, lock, cur, tx, crashes>>

FinishRun(p) ==
    /\ pc[p] = "pick" /\ due[p] = {}
    /\ pc' = [pc EXCEPT ![p] = "idle"]
    /\ UNCHANGED <<world, tables, lock, day, due, cur, tx, crashes>>

\* Variant: the run retries a row it could not lock until it gets it.
SkipRowRetried(p, r) ==
    /\ pc[p] = "pick" /\ r \in due[p]
    /\ r \notin recs \/ lock[r] # Free
    /\ UNCHANGED vars

\* SKIP LOCKED returned no row: deleted since the scan, or locked by another
\* transaction.
SkipRow(p, r) ==
    /\ pc[p] = "pick" /\ r \in due[p]
    /\ r \notin recs \/ lock[r] # Free
    /\ due' = [due EXCEPT ![p] = @ \ {r}]
    /\ UNCHANGED <<world, tables, lock, pc, day, cur, tx, crashes>>

\* scope_for_recurrence: the creator must still have a membership row.
HasScope(r) == Creator[r] \in members

\* The row was locked and read, the creator has left: rollback, nothing written.
PauseRow(p, r) ==
    /\ pc[p] = "pick" /\ r \in due[p]
    /\ r \in recs /\ lock[r] = Free /\ ~HasScope(r)
    /\ due' = [due EXCEPT ![p] = @ \ {r}]
    /\ UNCHANGED <<world, tables, lock, pc, day, cur, tx, crashes>>

\* Variant: a plain SELECT, without FOR UPDATE.
LockRowUnlocked(p, r) ==
    /\ pc[p] = "pick" /\ r \in due[p]
    /\ r \in recs /\ HasScope(r)
    /\ lock' = [lock EXCEPT ![r] = p]
    /\ due' = [due EXCEPT ![p] = @ \ {r}]
    /\ cur' = [cur EXCEPT ![p] = r]
    /\ tx' = [tx EXCEPT ![p] = [index |-> row[r].occurrence_index,
                                next_date |-> row[r].next_date, batch |-> <<>>]]
    /\ pc' = [pc EXCEPT ![p] = "loop"]
    /\ UNCHANGED <<world, tables, day, crashes>>

LockRow(p, r) ==
    /\ pc[p] = "pick" /\ r \in due[p]
    /\ r \in recs /\ lock[r] = Free /\ HasScope(r)
    /\ lock' = [lock EXCEPT ![r] = p]
    /\ due' = [due EXCEPT ![p] = @ \ {r}]
    /\ cur' = [cur EXCEPT ![p] = r]
    /\ tx' = [tx EXCEPT ![p] = [index |-> row[r].occurrence_index,
                                next_date |-> row[r].next_date, batch |-> <<>>]]
    /\ pc' = [pc EXCEPT ![p] = "loop"]
    /\ UNCHANGED <<world, tables, day, crashes>>

\* Variant: the iterations are never counted.
IterationsUncounted(p) == 0
Iterations(p) == tx[p].index - row[cur[p]].occurrence_index

\* Variants: the loop without its first break, and without its second.
AnotherIsDueToday(p) == Iterations(p) < Cap /\ ~PastEnd(row[cur[p]].ends_on, OccurrenceDate(cur[p], tx[p].index))
AnotherIsDueForever(p) == Iterations(p) < Cap /\ OccurrenceDate(cur[p], tx[p].index) <= day[p]

\* The loop's condition and its two breaks.
AnotherIsDue(p) ==
    LET r == cur[p]
        occ == OccurrenceDate(r, tx[p].index)
    IN  Iterations(p) < Cap /\ occ <= day[p] /\ ~PastEnd(row[r].ends_on, occ)

\* Variant: an INSERT that knows no conflict.
AlreadyInsertedNever(p, d) == FALSE

\* INSERT ... ON CONFLICT DO NOTHING returns no row: committed before, or earlier
\* in this transaction.
AlreadyInserted(p, d) == d \in occurrences[cur[p]] \cup Dates(tx[p].batch)

\* The insert waits for another transaction's uncommitted row with the same key.
MustWait(p, d) ==
    \E q \in Runs \ {p} : pc[q] = "loop" /\ cur[q] = cur[p] /\ d \in Dates(tx[q].batch)

\* The end of an iteration: the cursor moves on whether or not a row was inserted.
AdvanceCursor(p, batch) ==
    tx' = [tx EXCEPT ![p] = [index |-> @.index + 1,
                             next_date |-> OccurrenceDate(cur[p], @.index + 1),
                             batch |-> batch]]

PostOccurrence(p) ==
    /\ pc[p] = "loop" /\ AnotherIsDue(p)
    /\ LET occ == OccurrenceDate(cur[p], tx[p].index)
       IN  /\ ~AlreadyInserted(p, occ) /\ ~MustWait(p, occ)
           /\ row[cur[p]].postable
           /\ AdvanceCursor(p, Append(tx[p].batch, occ))
    /\ UNCHANGED <<world, tables, lock, pc, day, due, cur, crashes>>

PassOverOccurrence(p) ==
    /\ pc[p] = "loop" /\ AnotherIsDue(p)
    /\ LET occ == OccurrenceDate(cur[p], tx[p].index)
       IN  AlreadyInserted(p, occ) /\ ~MustWait(p, occ)
    /\ AdvanceCursor(p, tx[p].batch)
    /\ UNCHANGED <<world, tables, lock, pc, day, due, cur, crashes>>

\* Leave the transaction of cur[p], by COMMIT or by ROLLBACK.
EndTx(p, next) ==
    /\ lock' = [lock EXCEPT ![cur[p]] = Free]
    /\ cur' = [cur EXCEPT ![p] = NoRec]
    /\ tx' = [tx EXCEPT ![p] = NoTx]
    /\ pc' = [pc EXCEPT ![p] = next]

\* Variants: the error is swallowed and the loop goes on; the occurrence row was
\* committed before the error.
FailOccurrenceSwallowed(p) ==
    /\ pc[p] = "loop" /\ AnotherIsDue(p)
    /\ ~AlreadyInserted(p, OccurrenceDate(cur[p], tx[p].index))
    /\ ~row[cur[p]].postable
    /\ AdvanceCursor(p, tx[p].batch)
    /\ UNCHANGED <<world, tables, lock, pc, day, due, cur, crashes>>

FailOccurrenceHalfway(p) ==
    /\ pc[p] = "loop" /\ AnotherIsDue(p)
    /\ LET occ == OccurrenceDate(cur[p], tx[p].index)
       IN  /\ ~AlreadyInserted(p, occ) /\ ~row[cur[p]].postable
           /\ occurrences' = [occurrences EXCEPT ![cur[p]] = @ \cup {occ}]
    /\ EndTx(p, "pick")
    /\ UNCHANGED <<world, recs, created, row, ledger, altered, day, due, crashes>>

\* create_transaction raises: the whole recurrence rolls back, cursor included.
FailOccurrence(p) ==
    /\ pc[p] = "loop" /\ AnotherIsDue(p)
    /\ ~AlreadyInserted(p, OccurrenceDate(cur[p], tx[p].index))
    /\ ~row[cur[p]].postable
    /\ EndTx(p, "pick")
    /\ UNCHANGED <<world, tables, day, due, crashes>>

\* Variant: a run that hits the cap rolls back.
CommitRowUnlessCapped(p) ==
    /\ pc[p] = "loop" /\ ~AnotherIsDue(p) /\ Iterations(p) = Cap
    /\ EndTx(p, "pick")
    /\ UNCHANGED <<world, tables, day, due, crashes>>

\* One commit for the recurrence: occurrence rows, transactions and cursor.
CommitRow(p) ==
    /\ pc[p] = "loop" /\ ~AnotherIsDue(p)
    /\ LET r == cur[p]
       IN  /\ row' = [row EXCEPT ![r] = [@ EXCEPT !.occurrence_index = tx[p].index,
                                                 !.next_date = tx[p].next_date]]
           /\ occurrences' = [occurrences EXCEPT ![r] = @ \cup Dates(tx[p].batch)]
           /\ ledger' = [ledger EXCEPT ![r] = @ \o tx[p].batch]
    /\ EndTx(p, "pick")
    /\ UNCHANGED <<world, recs, created, altered, day, due, crashes>>

\* A timeout of the function or a lost connection: PostgreSQL rolls back and
\* releases the row lock; what earlier recurrences committed stays.
Crash(p) ==
    /\ pc[p] # "idle" /\ crashes < MaxCrashes
    /\ crashes' = crashes + 1
    /\ IF pc[p] = "loop" THEN EndTx(p, "idle")
       ELSE pc' = [pc EXCEPT ![p] = "idle"] /\ UNCHANGED <<lock, cur, tx>>
    /\ due' = [due EXCEPT ![p] = {}]
    /\ UNCHANGED <<world, tables, day>>

-----------------------------------------------------------------------------

Request(r) ==
    \/ CreateRecurring(r) \/ BeginRequest(r)
    \/ PatchRecurring(r) \/ DeleteRecurring(r) \/ AbortRequest(r)

World ==
    \/ Tick
    \/ \E u \in Users : LeaveWorkspace(u) \/ RejoinWorkspace(u)
    \/ \E b \in BOOLEAN : SetWorkspaceActive(b)

Generate(p) ==
    \/ StartRun(p) \/ FinishRun(p)
    \/ \E r \in Recs : SkipRow(p, r) \/ PauseRow(p, r) \/ LockRow(p, r)
    \/ PostOccurrence(p) \/ PassOverOccurrence(p) \/ FailOccurrence(p) \/ CommitRow(p)

Next ==
    \/ \E r \in Recs : Request(r)
    \/ World
    \/ \E p \in Runs : Generate(p) \/ Crash(p)

Spec == Init /\ [][Next]_vars

-----------------------------------------------------------------------------
(* Safety. *)

\* No occurrence is ever posted twice, whatever overlaps, dies, is patched or is
\* deleted: the promise the primary key (recurrence, date) makes to the run's insert.
NoDuplicatePosting == \A r \in Recs : Distinct(ledger[r])

\* While its cadence is left alone, what a recurrence has posted is exactly the first
\* occurrence_index dates of its schedule, in order: nothing skipped by a crash, an
\* error, a pause or the catch-up cap, nothing posted out of turn, and next_date is
\* the date that comes next.
LedgerFollowsSchedule ==
    \A r \in recs \ altered :
        /\ ledger[r] = [k \in 1..row[r].occurrence_index |-> OccurrenceDate(r, k - 1)]
        /\ row[r].next_date = OccurrenceDate(r, row[r].occurrence_index)

\* Occurrence rows and posted transactions are one transaction's work: a date has its
\* row exactly when its transaction was committed.
OccurrenceRowsMatchLedger == \A r \in recs : occurrences[r] = Dates(ledger[r])

\* Nothing is posted before its day.
NeverEarly == \A r \in Recs : \A d \in Dates(ledger[r]) : d <= today

\* What the open transaction of p has done so far: it owns the row, its batch is
\* new, due, within ends_on and capped; unless the cadence was patched it is the
\* stretch of the schedule from the cursor on.
InTransaction(p) ==
    LET r == cur[p]
        base == row[r].occurrence_index
    IN  /\ lock[r] = p
        /\ Distinct(tx[p].batch)
        /\ \A d \in Dates(tx[p].batch) :
              d \notin occurrences[r] /\ d <= day[p] /\ ~PastEnd(row[r].ends_on, d)
        /\ tx[p].index \in base..(base + Cap)
        /\ Len(tx[p].batch) <= tx[p].index - base
        /\ r \notin altered =>
              /\ Len(tx[p].batch) = tx[p].index - base
              /\ \A k \in DOMAIN tx[p].batch : tx[p].batch[k] = OccurrenceDate(r, base + k - 1)
              /\ tx[p].next_date = OccurrenceDate(r, tx[p].index)

\* The inductive invariant: the safety invariants, what they need of ids not yet
\* used, of locks and of the clocks of the runs, and each open transaction's state.
GenerationInv ==
    /\ TypeOK
    /\ \A r \in Recs \ created : ledger[r] = <<>> /\ occurrences[r] = {} /\ r \notin altered
    /\ \A r \in Recs : lock[r] # Free => r \in recs
    /\ \A p \in Runs : day[p] <= today
    /\ NoDuplicatePosting
    /\ LedgerFollowsSchedule
    /\ OccurrenceRowsMatchLedger
    /\ NeverEarly
    /\ \A p \in Runs : pc[p] = "loop" => InTransaction(p)

\* A run that commits late never moves a cursor back.
CursorNeverMovesBack ==
    [][\A r \in recs \cap recs' : row'[r].occurrence_index >= row[r].occurrence_index]_vars

\* What a commit posts is within the ends_on the row has at that commit, however
\* the loop of the run and a PATCH of ends_on interleave.
EndDateRespected ==
    [][\A r \in Recs : \A k \in DOMAIN ledger'[r] \ DOMAIN ledger[r] :
          ~PastEnd(row[r].ends_on, ledger'[r][k])]_vars

\* Generation keeps the promise of RecurringLedger: seen through the ledger alone,
\* every step is one batch for one recurrence, or nothing.
Promise == INSTANCE RecurringLedger WITH clock <- today, posted <- ledger
LedgerPromise == Promise!Spec

-----------------------------------------------------------------------------
(***************************************************************************)
(* Liveness.  The schedule fires every day and an invocation that is not   *)
(* cut short goes on (weak fairness of each run's steps); a request ends.  *)
(* Members, PATCHes, days and crashes are under no obligation.  What is    *)
(* due stays due, so that the runs of the last day stand for those of all  *)
(* later days.                                                             *)
(***************************************************************************)

RequestEnds(r) == PatchRecurring(r) \/ DeleteRecurring(r) \/ AbortRequest(r)

Fairness ==
    /\ \A p \in Runs : WF_vars(Generate(p))
    /\ \A r \in Recs : WF_vars(RequestEnds(r))

FairSpec == Spec /\ Fairness

\* Nothing stands in the way of r: its creator is a member, its row is postable and
\* no request keeps it locked.
Unhindered(r) == HasScope(r) /\ row[r].postable /\ lock[r] # Http

\* The occurrence the cursor of r points at is due.
IsDue(r) ==
    LET occ == OccurrenceDate(r, row[r].occurrence_index)
    IN  r \in recs /\ occ <= today /\ ~PastEnd(row[r].ends_on, occ)

\* A PATCH of period or repeat_every has put the index on another schedule and left
\* next_date, by which the scan goes, where it was.
OutOfScan(r) == r \in altered /\ row[r].next_date > today

\* A recurrence that is at last left unhindered drains its backlog, however long it was
\* paused or erroring, however small the cap, and with a patched cadence too; in that
\* case alone what is due may have to wait until the old next_date comes.  It takes one
\* run, one day in the code, for every Cap occurrences.
CatchesUp ==
    \A r \in Recs : <>[]Unhindered(r) => []<>(~IsDue(r) \/ OutOfScan(r))

\* Every invocation comes to its end: neither an insert that finds its key taken
\* nor a locked row keeps it.
RunsTerminate == \A p \in Runs : pc[p] # "idle" ~> pc[p] = "idle"
=============================================================================
