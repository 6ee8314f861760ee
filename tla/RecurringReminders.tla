------------------------- MODULE RecurringReminders -------------------------
(***************************************************************************)
(* Reminders of recurrences (Pass B of backend/app/recurring/generation.py *)
(* in the handler of backend/app/scheduler.py): invocations that may       *)
(* overlap, be cut off or run past midnight, the lock that is skipped when *)
(* taken, and the mail that goes out before its mark is committed.         *)
(*                                                                         *)
(* Pass A of the same invocations is abstracted to where it leaves         *)
(* next_date; RecurringGeneration has its steps.  The settings of a        *)
(* recurrence may change, and its creator leave, at any time.              *)
(***************************************************************************)
EXTENDS Integers

CONSTANTS
    Recs,         \* recurrences
    Runs,         \* invocations of the scheduler that may overlap
    MaxDay,       \* bound of the clock
    Horizon,      \* bound of the dates of a schedule
    Days,         \* values of reminder_days_before
    MaxFaults,    \* crashes and lost answers
    Null

ASSUME ReminderConstants ==
    /\ MaxDay \in Nat /\ Horizon \in Nat /\ MaxDay < Horizon
    /\ MaxFaults \in Nat
    /\ Days \subseteq 0..30
    /\ Null \notin Int /\ Null \notin Recs

VARIABLES
    clock,        \* the date
    rows,         \* recurring_transaction: the columns reminders look at
    members,      \* recurrences whose creator is a member, and sees the account
    run,          \* where each invocation is
    sent,         \* mails SES has accepted, by recurrence and due date
    unmarked,     \* those of them whose mark was never committed
    faults,
    excused       \* history: what an invocation's list of reminders need not answer for

vars == <<clock, rows, members, run, sent, unmarked, faults, excused>>

Dates == 0..Horizon

Row == [next : Dates, before : Days \cup {Null}, ends : Dates \cup {Null},
        reminded : Dates \cup {Null}]

\* rec is the recurrence whose row the invocation has locked.
RunState == [at : {"idle", "generation", "reminders", "send", "mark"},
             today : 0..MaxDay, todo : SUBSET Recs, rec : Recs \cup {Null}]
Idle == [at |-> "idle", today |-> 0, todo |-> {}, rec |-> Null]

Init ==
    /\ clock = 0
    /\ rows \in [Recs -> {row \in Row : row.reminded = Null}]
    /\ members = Recs
    /\ run = [i \in Runs |-> Idle]
    /\ sent = [r \in Recs |-> [d \in Dates |-> 0]]
    /\ unmarked = [r \in Recs |-> [d \in Dates |-> 0]]
    /\ faults = 0
    /\ excused = [i \in Runs |-> {}]

-----------------------------------------------------------------------------
(* An invocation.                                                          *)

\* SKIP LOCKED passes over such a row, an UPDATE or a DELETE waits for it.
Locked(r) == \E i \in Runs : run[i].rec = r

\* Variant: a reminder also on the day itself.
InWindowToTheDay(row, today) ==
    row.before # Null /\ row.next >= today - 1 /\ row.next - row.before <= today
\* _due_reminder_ids: from reminder_days_before days ahead to the day before.
InWindow(row, today) ==
    row.before # Null /\ row.next > today /\ row.next - row.before <= today

\* handler reads the clock, once, and run scans what is due.
StartRun(i) ==
    /\ run[i].at = "idle"
    /\ run' = [run EXCEPT ![i] = [Idle EXCEPT !.at = "generation", !.today = clock,
           !.todo = {r \in Recs : rows[r] # Null /\ rows[r].next <= clock}]]
    /\ UNCHANGED <<clock, rows, members, sent, unmarked, faults, excused>>

\* Beside r something changes that the lists under way were made without.
Passing == {"reminders", "send", "mark"}
Excuse(r) == excused' =
    [i \in Runs |-> IF run[i].at \in Passing THEN excused[i] \cup {r} ELSE excused[i]]

\* Where Pass A may move next_date: after today or, at its cap, not so far.
Generated(row, today) == IF row.next <= today THEN Dates ELSE {}

\* Or it leaves the row as it was: ended, paused, in error, locked or deleted.
Generate(i, r) ==
    /\ run[i].at = "generation" /\ r \in run[i].todo
    /\ run' = [run EXCEPT ![i].todo = @ \ {r}]
    /\ \/ UNCHANGED <<rows, excused>>
       \/ /\ rows[r] # Null /\ ~Locked(r)
          /\ \E d \in Generated(rows[r], run[i].today) : rows' = [rows EXCEPT ![r].next = d]
          /\ Excuse(r)
    /\ UNCHANGED <<clock, members, sent, unmarked, faults>>

\* Variant: a recurrence is scanned on the first day of its window only.
ScanRemindersOnce(i) ==
    /\ run[i].at = "generation" /\ run[i].todo = {}
    /\ run' = [run EXCEPT ![i].at = "reminders", ![i].todo = {r \in Recs :
           /\ rows[r] # Null /\ InWindow(rows[r], run[i].today)
           /\ rows[r].next - rows[r].before = run[i].today}]
    /\ UNCHANGED <<clock, rows, members, sent, unmarked, faults, excused>>
\* run_reminders: the scan.
ScanReminders(i) ==
    /\ run[i].at = "generation" /\ run[i].todo = {}
    /\ run' = [run EXCEPT ![i].at = "reminders",
           ![i].todo = {r \in Recs : rows[r] # Null /\ InWindow(rows[r], run[i].today)}]
    /\ UNCHANGED <<clock, rows, members, sent, unmarked, faults, excused>>

\* Variant: the mark is not looked at under the lock.
RemindableAgain(r, today) == LET row == rows[r] IN
    /\ InWindow(row, today)
    /\ row.ends # Null => row.next <= row.ends
    /\ r \in members
\* Every predicate once more, under the lock, and the creator's scope.
Remindable(r, today) == LET row == rows[r] IN
    /\ InWindow(row, today)
    /\ row.reminded # row.next
    /\ row.ends # Null => row.next <= row.ends
    /\ r \in members

ToRemind(i, r) == rows[r] # Null /\ ~Locked(r) /\ Remindable(r, run[i].today)

LockRow(i, r) ==
    /\ run[i].at = "reminders" /\ r \in run[i].todo /\ ToRemind(i, r)
    /\ run' = [run EXCEPT ![i].at = "send", ![i].rec = r]
    /\ UNCHANGED <<clock, rows, members, sent, unmarked, faults, excused>>

\* Variant: a row that is skipped is tried again at once.
SkipRowRetried(i, r) ==
    /\ run[i].at = "reminders" /\ r \in run[i].todo /\ ~ToRemind(i, r)
    /\ UNCHANGED vars
\* not_due, already_sent, paused, or no row any more.
SkipRow(i, r) ==
    /\ run[i].at = "reminders" /\ r \in run[i].todo /\ ~ToRemind(i, r) /\ ~Locked(r)
    /\ run' = [run EXCEPT ![i].todo = @ \ {r}]
    /\ UNCHANGED <<clock, rows, members, sent, unmarked, faults, excused>>

\* locked: by another invocation's reminder; or, at any time, by its Pass A or by a
\* request, whose steps are one here.
SkipLocked(i, r) ==
    /\ run[i].at = "reminders" /\ r \in run[i].todo /\ rows[r] # Null
    /\ run' = [run EXCEPT ![i].todo = @ \ {r}]
    /\ excused' = [excused EXCEPT ![i] = @ \cup {r}]
    /\ UNCHANGED <<clock, rows, members, sent, unmarked, faults>>

Mailed(r) == sent' = [sent EXCEPT ![r][rows[r].next] = @ + 1]
Unmarked(r) == unmarked' = [unmarked EXCEPT ![r][rows[r].next] = @ + 1]
Fault == faults < MaxFaults /\ faults' = faults + 1

\* SES accepts the message and says so.
SendAccepted(i) == LET r == run[i].rec IN
    /\ run[i].at = "send"
    /\ Mailed(r)
    /\ run' = [run EXCEPT ![i].at = "mark"]
    /\ UNCHANGED <<clock, rows, members, unmarked, faults, excused>>

\* SES accepts it and the answer is lost: the client library sends it again, or gives up.
SendUnanswered(i) == LET r == run[i].rec IN
    /\ run[i].at = "send"
    /\ Fault /\ Mailed(r) /\ Unmarked(r)
    /\ UNCHANGED <<clock, rows, members, run, excused>>

\* Variant: the row lock outlives the row's turn.
ReleaseLater(i) == run' = [run EXCEPT ![i].at = "reminders", ![i].todo = @ \ {run[i].rec}]
\* COMMIT or ROLLBACK.
Release(i) == run' = [run EXCEPT ![i].at = "reminders", ![i].rec = Null,
                                 ![i].todo = @ \ {run[i].rec}]

\* send_email raises: the row is let go, and the next one is looked at.
SendFails(i) ==
    /\ run[i].at = "send"
    /\ Release(i)
    /\ excused' = [excused EXCEPT ![i] = @ \cup {run[i].rec}]
    /\ UNCHANGED <<clock, rows, members, sent, unmarked, faults>>

\* Variant: marked before the mail is out.
MarkAnyhow(i) == LET r == run[i].rec IN
    /\ run[i].at \in {"send", "mark"}
    /\ rows' = [rows EXCEPT ![r].reminded = rows[r].next]
    /\ Release(i)
    /\ UNCHANGED <<clock, members, sent, unmarked, faults, excused>>
MarkReminded(i) == LET r == run[i].rec IN
    /\ run[i].at = "mark"
    /\ rows' = [rows EXCEPT ![r].reminded = rows[r].next]
    /\ Release(i)
    /\ UNCHANGED <<clock, members, sent, unmarked, faults, excused>>

EndRun(i) ==
    /\ run[i].at = "reminders" /\ run[i].todo = {}
    /\ run' = [run EXCEPT ![i] = Idle]
    /\ excused' = [excused EXCEPT ![i] = {}]
    /\ UNCHANGED <<clock, rows, members, sent, unmarked, faults>>

\* The function is cut off, or the COMMIT fails: the mail is out and not marked.
Crash(i) ==
    /\ run[i].at # "idle" /\ Fault
    /\ IF run[i].at = "mark" THEN Unmarked(run[i].rec) ELSE unmarked' = unmarked
    /\ run' = [run EXCEPT ![i] = Idle]
    /\ excused' = [excused EXCEPT ![i] = {}]
    /\ UNCHANGED <<clock, rows, members, sent>>

-----------------------------------------------------------------------------
(* The rest of the world.                                                  *)

\* PATCH never touches next_date or last_reminded_for_date.
PatchRecurring(r) ==
    /\ rows[r] # Null /\ ~Locked(r) /\ r \in members
    /\ \E b \in Days \cup {Null}, e \in Dates \cup {Null} :
        rows' = [rows EXCEPT ![r].before = b, ![r].ends = e]
    /\ Excuse(r)
    /\ UNCHANGED <<clock, members, run, sent, unmarked, faults>>

DeleteRecurring(r) ==
    /\ rows[r] # Null /\ ~Locked(r)
    /\ rows' = [rows EXCEPT ![r] = Null]
    /\ UNCHANGED <<clock, members, run, sent, unmarked, faults, excused>>

\* The creator leaves, or comes back by an invite.
ChangeMembership(r) ==
    /\ members' = IF r \in members THEN members \ {r} ELSE members \cup {r}
    /\ Excuse(r)
    /\ UNCHANGED <<clock, rows, run, sent, unmarked, faults>>

\* An invocation has five minutes: it sees one midnight at most.
Tick ==
    /\ clock < MaxDay
    /\ \A i \in Runs : run[i].at # "idle" => run[i].today = clock
    /\ clock' = clock + 1
    /\ UNCHANGED <<rows, members, run, sent, unmarked, faults, excused>>

-----------------------------------------------------------------------------

Advance(i) ==
    \/ \E r \in Recs : Generate(i, r) \/ LockRow(i, r) \/ SkipRow(i, r) \/ SkipLocked(i, r)
    \/ ScanReminders(i) \/ SendAccepted(i) \/ SendFails(i) \/ MarkReminded(i) \/ EndRun(i)

Next ==
    \/ \E i \in Runs : StartRun(i) \/ Advance(i) \/ SendUnanswered(i) \/ Crash(i)
    \/ \E r \in Recs : PatchRecurring(r) \/ DeleteRecurring(r) \/ ChangeMembership(r)
    \/ Tick

Spec == Init /\ [][Next]_vars

\* An invocation that has begun is given its time.  Nothing is asked of the schedule,
\* which starts one a day, nor of SES.
FairSpec == Spec /\ \A i \in Runs : WF_vars(Advance(i))

-----------------------------------------------------------------------------
(* Properties.                                                             *)

TypeOK ==
    /\ clock \in 0..MaxDay
    /\ rows \in [Recs -> Row \cup {Null}]
    /\ members \subseteq Recs
    /\ run \in [Runs -> RunState]
    /\ \A i \in Runs : run[i].at \in {"send", "mark"} <=> run[i].rec # Null
    /\ sent \in [Recs -> [Dates -> Nat]]
    /\ unmarked \in [Recs -> [Dates -> Nat]]
    /\ faults \in 0..MaxFaults
    /\ excused \in [Runs -> SUBSET Recs]

\* One reminder for a due date, and one more for each mail whose mark was lost: by a
\* crash after it, or with the answer of SES.
SentOnce == \A r \in Recs, d \in Dates : sent[r][d] <= 1 + unmarked[r][d]

\* What is marked went out.
MarkedWasSent == \A r \in Recs :
    rows[r] # Null /\ rows[r].reminded # Null =>
        sent[r][rows[r].reminded] > unmarked[r][rows[r].reminded]

\* A mail goes out inside the window that the row has at that moment, never after the
\* due date: also when the invocation runs past midnight, and whatever was patched since
\* its scan.
SentInTime == [][
    \A r \in Recs, d \in Dates : sent'[r][d] # sent[r][d] =>
        /\ d = rows[r].next /\ clock <= d
        /\ rows[r].before # Null /\ d - rows[r].before <= clock
    ]_vars

\* An invocation at the end of its list leaves no reminder behind, also none that an
\* earlier day missed, but those that SES refused it, that it found locked, and rows that
\* changed since its scan.
PassIsComplete == \A i \in Runs :
    run[i].at = "reminders" /\ run[i].todo = {} =>
        \A r \in Recs \ excused[i] : rows[r] # Null => ~Remindable(r, run[i].today)

\* Every invocation ends.
RunsEnd == \A i \in Runs : run[i].at # "idle" ~> run[i].at = "idle"
=============================================================================
