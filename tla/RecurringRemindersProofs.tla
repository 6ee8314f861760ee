---------------------- MODULE RecurringRemindersProofs ----------------------
(***************************************************************************)
(* Proofs about RecurringReminders: its types, and when and how often a    *)
(* reminder goes out, and what an invocation may leave behind.             *)
(***************************************************************************)
EXTENDS RecurringReminders, TLAPS

\* An invocation sees one midnight at most.  The row it has locked is there, is
\* in its window as the invocation reckons, is not marked yet and is no other's;
\* at "mark" its mail is out.
RunInv(i) ==
    LET r == run[i].rec
    IN  /\ run[i].at # "idle" => run[i].today <= clock /\ clock <= run[i].today + 1
        /\ r # Null =>
              /\ rows[r] # Null
              /\ InWindow(rows[r], run[i].today)
              /\ rows[r].reminded # rows[r].next
              /\ \A j \in Runs \ {i} : run[j].rec # r
        /\ run[i].at = "mark" => sent[r][rows[r].next] > unmarked[r][rows[r].next]

\* The mail of a run that is about to mark it.
Pending(r, d) == d = rows[r].next /\ \E i \in Runs : run[i].at = "mark" /\ run[i].rec = r

\* What went out and was not lost is marked, or about to be, or out of reach:
\* its day is over, or is today and the schedule has moved on.
Settled(r, d) ==
    sent[r][d] > unmarked[r][d] =>
        \/ rows[r].reminded = d
        \/ d < clock
        \/ d = clock /\ rows[r].next > clock
        \/ Pending(r, d)

RecInv(r) ==
    /\ \A d \in Dates : unmarked[r][d] <= sent[r][d] /\ sent[r][d] <= 1 + unmarked[r][d]
    /\ rows[r] # Null =>
          /\ rows[r].reminded # Null =>
                /\ rows[r].reminded = rows[r].next \/ rows[r].reminded <= clock
                /\ sent[r][rows[r].reminded] > unmarked[r][rows[r].reminded]
          /\ \A d \in Dates : Settled(r, d)

ReminderInv ==
    /\ TypeOK
    /\ \A i \in Runs : RunInv(i)
    /\ \A r \in Recs : RecInv(r)

LEMMA InitInv == Init => ReminderInv
<1> SUFFICES ASSUME Init PROVE ReminderInv
  OBVIOUS
<1>1. /\ clock \in 0..MaxDay /\ faults \in 0..MaxFaults
      /\ rows \in [Recs -> Row \cup {Null}] /\ members \subseteq Recs
      /\ sent \in [Recs -> [Dates -> Nat]] /\ unmarked \in [Recs -> [Dates -> Nat]]
      /\ excused \in [Runs -> SUBSET Recs]
  BY ReminderConstants DEF Init
<1>2. Idle \in RunState
  BY ReminderConstants DEF Idle, RunState
<1>3. /\ run \in [Runs -> RunState]
      /\ \A i \in Runs : run[i].at = "idle" /\ run[i].rec = Null
  BY <1>2 DEF Init, Idle
<1>4. TypeOK
  BY <1>1, <1>3 DEF TypeOK
<1>5. \A r \in Recs : RecInv(r)
  <2> TAKE r \in Recs
  <2>1. \A d \in Dates : sent[r][d] = 0 /\ unmarked[r][d] = 0
    BY DEF Init
  <2>2. rows[r].reminded = Null
    BY DEF Init
  <2> QED
    BY <2>1, <2>2 DEF RecInv, Settled
<1> QED
  BY <1>3, <1>4, <1>5 DEF ReminderInv, RunInv

-----------------------------------------------------------------------------
(* Steps of one invocation that change nothing but it.                     *)

LEMMA Shapes ==
  ASSUME TypeOK
  PROVE  /\ clock \in Int /\ Dates \subseteq Int
         /\ \A i \in Runs : run[i] \in RunState /\ run[i].today \in Int
         /\ \A r \in Recs : rows[r] # Null =>
               /\ rows[r] \in Row
               /\ rows[r].next \in Dates /\ rows[r].next \in Int
               /\ rows[r].reminded \in Dates \cup {Null}
               /\ rows[r].before # Null => rows[r].before \in Int
         /\ \A r \in Recs, d \in Dates : sent[r][d] \in Nat /\ unmarked[r][d] \in Nat
<1>1. clock \in Int /\ Dates \subseteq Int
  BY ReminderConstants DEF TypeOK, Dates
<1>2. \A i \in Runs : run[i] \in RunState /\ run[i].today \in Int
  BY ReminderConstants DEF TypeOK, RunState
<1>3. ASSUME NEW r \in Recs, rows[r] # Null
      PROVE  /\ rows[r] \in Row
             /\ rows[r].next \in Dates
             /\ rows[r].reminded \in Dates \cup {Null}
             /\ rows[r].before # Null => rows[r].before \in Int
  <2>1. rows[r] \in Row
    BY <1>3 DEF TypeOK
  <2>2. /\ rows[r].next \in Dates
        /\ rows[r].reminded \in Dates \cup {Null}
        /\ rows[r].before \in Days \cup {Null}
    BY <2>1 DEF Row
  <2>3. \A d \in Days : d \in Int
    <3>1. Days \subseteq 0..30
      BY ReminderConstants
    <3> QED
      BY <3>1
  <2>4. rows[r].before # Null => rows[r].before \in Int
    BY <2>2, <2>3
  <2> QED
    BY <2>1, <2>2, <2>4
<1>4. \A r \in Recs, d \in Dates : sent[r][d] \in Nat /\ unmarked[r][d] \in Nat
  BY DEF TypeOK
<1> QED
  BY <1>1, <1>2, <1>3, <1>4

LEMMA ExcusedType ==
  ASSUME ReminderInv, Next
  PROVE  excused' \in [Runs -> SUBSET Recs]
<1>0. excused \in [Runs -> SUBSET Recs] /\ run \in [Runs -> RunState]
  BY DEF ReminderInv, TypeOK
<1>1. ASSUME NEW r \in Recs, Excuse(r) PROVE excused' \in [Runs -> SUBSET Recs]
  BY <1>0, <1>1 DEF Excuse
<1>2. CASE UNCHANGED excused
  BY <1>0, <1>2
<1>3. ASSUME NEW i \in Runs, NEW S \in SUBSET Recs, excused' = [excused EXCEPT ![i] = S]
      PROVE  excused' \in [Runs -> SUBSET Recs]
  BY <1>0, <1>3
<1>4. ASSUME NEW i \in Runs, SendFails(i) PROVE excused' \in [Runs -> SUBSET Recs]
  <2>1. run[i].rec \in Recs
    BY <1>0, <1>4 DEF SendFails, ReminderInv, TypeOK, RunState
  <2>2. excused[i] \cup {run[i].rec} \in SUBSET Recs
    BY <1>0, <2>1
  <2>3. excused' = [excused EXCEPT ![i] = excused[i] \cup {run[i].rec}]
    BY <1>4 DEF SendFails
  <2> QED
    BY <1>0, <2>2, <2>3
<1>5. ASSUME NEW i \in Runs, NEW r \in Recs, SkipLocked(i, r)
      PROVE  excused' \in [Runs -> SUBSET Recs]
  <2>1. excused[i] \cup {r} \in SUBSET Recs
    BY <1>0
  <2>2. excused' = [excused EXCEPT ![i] = excused[i] \cup {r}]
    BY <1>5 DEF SkipLocked
  <2> QED
    BY <1>0, <2>1, <2>2
<1>6. ASSUME NEW i \in Runs, EndRun(i) \/ Crash(i) PROVE excused' \in [Runs -> SUBSET Recs]
  BY <1>0, <1>6 DEF EndRun, Crash
<1>7. ASSUME NEW i \in Runs, NEW r \in Recs, Generate(i, r)
      PROVE  excused' \in [Runs -> SUBSET Recs]
  BY <1>1, <1>2, <1>7 DEF Generate
<1>8. ASSUME NEW r \in Recs, PatchRecurring(r) \/ ChangeMembership(r)
      PROVE  excused' \in [Runs -> SUBSET Recs]
  BY <1>1, <1>8 DEF PatchRecurring, ChangeMembership
<1> QED
  BY <1>2, <1>4, <1>5, <1>6, <1>7, <1>8
     DEF Next, Advance, StartRun, LockRow, SkipRow, ScanReminders, SendAccepted, MarkReminded,
         SendUnanswered, DeleteRecurring, Tick

\* The rows and the mails stay, and no run stops being at "mark".
LEMMA RecKept ==
  ASSUME ReminderInv, UNCHANGED <<clock, rows, sent, unmarked>>,
         \A i \in Runs : run[i].at = "mark" =>
            run'[i].at = "mark" /\ run'[i].rec = run[i].rec
  PROVE  \A r \in Recs : RecInv(r)'
<1> TAKE r \in Recs
<1>1. \A d \in Dates : Settled(r, d) => Settled(r, d)'
  BY DEF Settled, Pending
<1> QED
  BY <1>1 DEF ReminderInv, RecInv

LEMMA RunKept ==
  ASSUME ReminderInv, UNCHANGED <<clock, rows, sent, unmarked>>, NEW i \in Runs,
         NEW state \in RunState, run' = [run EXCEPT ![i] = state],
         state.at # "idle" => state.today <= clock /\ clock <= state.today + 1,
         state.at \notin {"send", "mark"}, state.rec = Null
  PROVE  TypeOK /\ UNCHANGED <<members, faults>> /\ excused' \in [Runs -> SUBSET Recs] =>
            TypeOK' /\ \A j \in Runs : RunInv(j)'
<1> SUFFICES ASSUME TypeOK, UNCHANGED <<members, faults>>, excused' \in [Runs -> SUBSET Recs]
             PROVE  TypeOK' /\ \A j \in Runs : RunInv(j)'
  OBVIOUS
<1>1. run'[i] = state /\ \A j \in Runs \ {i} : run'[j] = run[j]
  BY DEF TypeOK
<1>2. TypeOK'
  BY <1>1 DEF TypeOK
<1>3. ASSUME NEW j \in Runs PROVE RunInv(j)'
  <2>1. CASE j = i
    BY <1>1, <2>1 DEF RunInv
  <2>2. CASE j # i
    <3>1. RunInv(j) /\ run'[j] = run[j]
      BY <1>1, <2>2 DEF ReminderInv
    <3>2. \A k \in Runs \ {j} : run[k].rec # run[j].rec \/ run[j].rec = Null
      BY <3>1 DEF RunInv
    <3>3. \A k \in Runs \ {j} : run'[k].rec # run[j].rec \/ run[j].rec = Null
      BY <1>1, <3>2
    <3> QED
      BY <3>1, <3>3 DEF RunInv
  <2> QED
    BY <2>1, <2>2
<1> QED
  BY <1>2, <1>3

LEMMA QuietSteps ==
  ASSUME ReminderInv, NEW i \in Runs,
         \/ StartRun(i) \/ ScanReminders(i) \/ EndRun(i) \/ SendFails(i)
         \/ \E r \in Recs : SkipRow(i, r) \/ SkipLocked(i, r)
  PROVE  ReminderInv'
<1>e. excused' \in [Runs -> SUBSET Recs]
  BY ExcusedType DEF Next, Advance
<1>0. TypeOK /\ RunInv(i) /\ run[i] \in RunState /\ run \in [Runs -> RunState]
  BY DEF ReminderInv, TypeOK
<1> USE Shapes
<1>1. ASSUME NEW state \in RunState, run' = [run EXCEPT ![i] = state],
             state.at # "idle" => state.today <= clock /\ clock <= state.today + 1,
             state.at \notin {"send", "mark"}, state.rec = Null, run[i].at # "mark",
             UNCHANGED <<clock, rows, members, sent, unmarked, faults>>
      PROVE  ReminderInv'
  <2>1. TypeOK' /\ \A j \in Runs : RunInv(j)'
    BY <1>0, <1>1, <1>e, RunKept
  <2>2. \A r \in Recs : RecInv(r)'
    BY <1>0, <1>1, RecKept
  <2> QED
    BY <2>1, <2>2 DEF ReminderInv
<1>2. CASE StartRun(i)
  <2> DEFINE state == [Idle EXCEPT !.at = "generation", !.today = clock,
           !.todo = {r \in Recs : rows[r] # Null /\ rows[r].next <= clock}]
  <2>1. /\ state \in RunState /\ state.today = clock
        /\ state.at = "generation" /\ state.rec = Null
    BY <1>0 DEF TypeOK, RunState, Idle
  <2>2. run' = [run EXCEPT ![i] = state]
    BY <1>2 DEF StartRun
  <2> HIDE DEF state
  <2>3. state.today <= clock /\ clock <= state.today + 1
    BY <1>0, <2>1
  <2>4. run[i].at # "mark" /\ UNCHANGED <<clock, rows, members, sent, unmarked, faults>>
    BY <1>2 DEF StartRun
  <2> QED
    BY <1>1, <2>1, <2>2, <2>3, <2>4
<1>3. CASE ScanReminders(i)
  <2> DEFINE state == [run[i] EXCEPT !.at = "reminders",
           !.todo = {r \in Recs : rows[r] # Null /\ InWindow(rows[r], run[i].today)}]
  <2>1. run' = [run EXCEPT ![i] = state]
    BY <1>0, <1>3 DEF ScanReminders
  <2>2. /\ state \in RunState /\ state.today = run[i].today
        /\ state.at = "reminders" /\ state.rec = Null
    BY <1>0, <1>3 DEF TypeOK, RunState, ScanReminders
  <2> QED
    BY <1>0, <1>1, <1>3, <2>1, <2>2 DEF ScanReminders, RunInv
<1>4. CASE EndRun(i)
  <2>1. Idle \in RunState /\ Idle.at = "idle" /\ Idle.rec = Null
    BY ReminderConstants DEF Idle, RunState
  <2> QED
    BY <1>0, <1>1, <1>4, <2>1 DEF EndRun
<1>5. CASE SendFails(i)
  <2> DEFINE state == [run[i] EXCEPT !.at = "reminders", !.rec = Null,
                                     !.todo = run[i].todo \ {run[i].rec}]
  <2>1. run' = [run EXCEPT ![i] = state]
    BY <1>0, <1>5 DEF SendFails, Release
  <2>2. /\ state \in RunState /\ state.today = run[i].today
        /\ state.at = "reminders" /\ state.rec = Null
    BY <1>0 DEF RunState
  <2> QED
    BY <1>0, <1>1, <1>5, <2>1, <2>2 DEF SendFails, RunInv
<1>6. ASSUME NEW r \in Recs, SkipRow(i, r) \/ SkipLocked(i, r) PROVE ReminderInv'
  <2> DEFINE state == [run[i] EXCEPT !.todo = run[i].todo \ {r}]
  <2>1. run' = [run EXCEPT ![i] = state]
    BY <1>0, <1>6 DEF SkipRow, SkipLocked
  <2>2. /\ state \in RunState /\ state.today = run[i].today
        /\ state.at = "reminders" /\ state.rec = Null
    BY <1>0, <1>6 DEF RunState, SkipRow, SkipLocked, TypeOK
  <2> QED
    BY <1>0, <1>1, <1>6, <2>1, <2>2 DEF SkipRow, SkipLocked, RunInv
<1> QED
  BY <1>2, <1>3, <1>4, <1>5, <1>6

LEMMA LockStep ==
  ASSUME ReminderInv, NEW i \in Runs, NEW r \in Recs, LockRow(i, r)
  PROVE  ReminderInv'
<1>e. excused' \in [Runs -> SUBSET Recs]
  BY ExcusedType DEF Next, Advance
<1>0. TypeOK /\ RunInv(i) /\ run[i] \in RunState /\ run \in [Runs -> RunState]
  BY DEF ReminderInv, TypeOK
<1>1. /\ run[i].at = "reminders" /\ rows[r] # Null /\ ~Locked(r)
      /\ Remindable(r, run[i].today)
      /\ UNCHANGED <<clock, rows, members, sent, unmarked, faults>>
      /\ r # Null
  BY ReminderConstants DEF LockRow, ToRemind
<1> DEFINE state == [run[i] EXCEPT !.at = "send", !.rec = r]
<1>2. run' = [run EXCEPT ![i] = state]
  BY <1>0 DEF LockRow
<1>3. /\ state \in RunState /\ state.today = run[i].today
      /\ state.at = "send" /\ state.rec = r
  BY <1>0 DEF RunState
<1> HIDE DEF state
<1>4. run'[i] = state /\ \A j \in Runs \ {i} : run'[j] = run[j]
  BY <1>0, <1>2
<1>5. TypeOK'
  BY <1>e, <1>0, <1>1, <1>2, <1>3, <1>4 DEF TypeOK
<1>6. ASSUME NEW j \in Runs PROVE RunInv(j)'
  <2>1. CASE j = i
    <3>1. \A k \in Runs \ {i} : run'[k].rec # r
      BY <1>1, <1>4 DEF Locked
    <3>2. run[i].today <= clock /\ clock <= run[i].today + 1
      BY <1>0, <1>1 DEF RunInv
    <3> QED
      BY <1>1, <1>3, <1>4, <2>1, <3>1, <3>2 DEF RunInv, Remindable
  <2>2. CASE j # i
    <3>1. RunInv(j) /\ run'[j] = run[j]
      BY <1>4, <2>2 DEF ReminderInv
    <3>2. run[j].rec # r
      BY <1>1 DEF Locked
    <3>3. run[j].rec # Null => \A k \in Runs \ {j} : run'[k].rec # run[j].rec
      BY <1>3, <1>4, <3>1, <3>2 DEF RunInv
    <3> QED
      BY <1>1, <3>1, <3>3 DEF RunInv
  <2> QED
    BY <2>1, <2>2
<1>7. \A q \in Recs : RecInv(q)'
  BY <1>1, <1>4, RecKept
<1> QED
  BY <1>5, <1>6, <1>7 DEF ReminderInv

-----------------------------------------------------------------------------
(* Steps that change a row no invocation holds.                            *)

\* The runs do not notice.
LEMMA RunsUnaware ==
  ASSUME ReminderInv, UNCHANGED <<clock, sent, unmarked>>,
         \A i \in Runs : /\ run'[i].at = run[i].at
                         /\ run'[i].today = run[i].today
                         /\ run'[i].rec = run[i].rec
                         /\ run[i].rec # Null => rows'[run[i].rec] = rows[run[i].rec]
  PROVE  \A i \in Runs : RunInv(i)'
<1> TAKE i \in Runs
<1>1. RunInv(i) /\ TypeOK
  BY DEF ReminderInv
<1>2. run[i].at = "mark" => run[i].rec # Null
  BY <1>1 DEF TypeOK
<1>3. run[i].rec # Null => \A j \in Runs \ {i} : run'[j].rec # run[i].rec
  BY <1>1 DEF RunInv
<1> QED
  BY <1>1, <1>2, <1>3 DEF RunInv

\* A row that keeps its dates, or that moves on from one that has come.
LEMMA RowMoved ==
  ASSUME ReminderInv, UNCHANGED <<clock, sent, unmarked>>, NEW r \in Recs,
         ~Locked(r), rows[r] # Null, rows'[r] \in Row,
         rows'[r].reminded = rows[r].reminded,
         rows'[r].next = rows[r].next \/ rows[r].next <= clock
  PROVE  RecInv(r)'
<1>0. TypeOK /\ RecInv(r)
  BY DEF ReminderInv
<1>1. /\ clock \in Int /\ rows[r].next \in Int /\ Dates \subseteq Int
      /\ rows[r].reminded \in Dates \cup {Null}
  BY <1>0, Shapes
<1>2. rows'[r].reminded # Null =>
        /\ rows'[r].reminded = rows'[r].next \/ rows'[r].reminded <= clock
        /\ sent[r][rows'[r].reminded] > unmarked[r][rows'[r].reminded]
  BY <1>0, <1>1 DEF RecInv
<1>3. ASSUME NEW d \in Dates PROVE Settled(r, d)'
  <2>1. Settled(r, d)
    BY <1>0 DEF RecInv
  <2>2. ~Pending(r, d)
    BY DEF Pending, Locked
  <2> QED
    BY <1>1, <2>1, <2>2 DEF Settled
<1> QED
  BY <1>0, <1>2, <1>3 DEF RecInv

\* A row that stays, beside runs that stay where they are.
LEMMA RowStays ==
  ASSUME ReminderInv, UNCHANGED <<clock, sent, unmarked>>, NEW r \in Recs,
         rows'[r] = rows[r],
         \A i \in Runs : run'[i].at = run[i].at /\ run'[i].rec = run[i].rec
  PROVE  RecInv(r)'
<1>1. RecInv(r)
  BY DEF ReminderInv
<1>2. \A d \in Dates : Settled(r, d) => Settled(r, d)'
  BY DEF Settled, Pending
<1> QED
  BY <1>1, <1>2 DEF RecInv

LEMMA PatchStep ==
  ASSUME ReminderInv, NEW r \in Recs, PatchRecurring(r) \/ DeleteRecurring(r)
  PROVE  ReminderInv'
<1>e. excused' \in [Runs -> SUBSET Recs]
  BY ExcusedType DEF Next, Advance
<1>0. TypeOK /\ rows \in [Recs -> Row \cup {Null}]
  BY DEF ReminderInv, TypeOK
<1>1. /\ rows[r] # Null /\ ~Locked(r)
      /\ UNCHANGED <<clock, members, run, sent, unmarked, faults>>
  BY DEF PatchRecurring, DeleteRecurring
<1>2. /\ rows' \in [Recs -> Row \cup {Null}]
      /\ \A q \in Recs \ {r} : rows'[q] = rows[q]
      /\ \/ rows'[r] = Null
         \/ /\ rows'[r] \in Row
            /\ rows'[r].reminded = rows[r].reminded
            /\ rows'[r].next = rows[r].next
  <2>1. CASE PatchRecurring(r)
    <3>1. PICK b \in Days \cup {Null}, e \in Dates \cup {Null} :
            rows' = [rows EXCEPT ![r].before = b, ![r].ends = e]
      BY <2>1 DEF PatchRecurring
    <3>2. rows[r] \in Row
      BY <1>0, <1>1
    <3>3. /\ rows'[r] \in Row
          /\ rows'[r].reminded = rows[r].reminded
          /\ rows'[r].next = rows[r].next
      BY <1>0, <3>1, <3>2 DEF Row
    <3> QED
      BY <1>0, <3>1, <3>3
  <2>2. CASE DeleteRecurring(r)
    BY <1>0, <2>2 DEF DeleteRecurring
  <2> QED
    BY <2>1, <2>2
<1>3. TypeOK'
  BY <1>e, <1>0, <1>1, <1>2 DEF TypeOK
<1>4. \A i \in Runs : run[i].rec # Null => rows'[run[i].rec] = rows[run[i].rec]
  BY <1>0, <1>1, <1>2 DEF Locked, TypeOK, RunState
<1>5. \A i \in Runs : RunInv(i)'
  BY <1>1, <1>4, RunsUnaware
<1>6. ASSUME NEW q \in Recs PROVE RecInv(q)'
  <2>1. CASE q # r
    BY <1>1, <1>2, <2>1, RowStays
  <2>2. CASE q = r /\ rows'[r] = Null
    BY <1>1, <2>2 DEF ReminderInv, RecInv
  <2>3. CASE q = r /\ rows'[r] # Null
    BY <1>1, <1>2, <2>3, RowMoved
  <2> QED
    BY <2>1, <2>2, <2>3
<1> QED
  BY <1>3, <1>5, <1>6 DEF ReminderInv

LEMMA GenerateStep ==
  ASSUME ReminderInv, NEW i \in Runs, NEW r \in Recs, Generate(i, r)
  PROVE  ReminderInv'
<1>e. excused' \in [Runs -> SUBSET Recs]
  BY ExcusedType DEF Next, Advance
<1>0. /\ TypeOK /\ RunInv(i)
      /\ rows \in [Recs -> Row \cup {Null}] /\ run \in [Runs -> RunState]
  BY DEF ReminderInv, TypeOK
<1>1. /\ run[i].at = "generation"
      /\ run' = [run EXCEPT ![i].todo = run[i].todo \ {r}]
      /\ UNCHANGED <<clock, members, sent, unmarked, faults>>
  BY <1>0 DEF Generate
<1>2. /\ run' \in [Runs -> RunState]
      /\ \A j \in Runs : /\ run'[j].at = run[j].at
                         /\ run'[j].today = run[j].today
                         /\ run'[j].rec = run[j].rec
  BY <1>0, <1>1 DEF RunState
<1>3. \/ rows' = rows
      \/ /\ rows[r] # Null /\ ~Locked(r)
         /\ \E d \in Generated(rows[r], run[i].today) : rows' = [rows EXCEPT ![r].next = d]
  BY DEF Generate
<1>4. CASE rows' = rows
  <2>1. TypeOK'
    BY <1>e, <1>0, <1>1, <1>2, <1>4 DEF TypeOK
  <2>2. \A j \in Runs : RunInv(j)'
    BY <1>1, <1>2, <1>4, RunsUnaware
  <2>3. \A q \in Recs : RecInv(q)'
    BY <1>1, <1>2, <1>4, RowStays
  <2> QED
    BY <2>1, <2>2, <2>3 DEF ReminderInv
<1>5. CASE rows' # rows
  <2>1. PICK d \in Generated(rows[r], run[i].today) : rows' = [rows EXCEPT ![r].next = d]
    BY <1>3, <1>5
  <2>2. rows[r] # Null /\ ~Locked(r) /\ rows[r] \in Row
    BY <1>0, <1>3, <1>5
  <2>3. d \in Dates /\ rows[r].next <= run[i].today
    BY <2>2 DEF Generated
  <2>4. /\ rows'[r] \in Row
        /\ rows'[r].reminded = rows[r].reminded
        /\ rows'[r].next = d
        /\ \A q \in Recs \ {r} : rows'[q] = rows[q]
    BY <1>0, <2>1, <2>2, <2>3 DEF Row
  <2>5. run[i].today <= clock
    BY <1>0, <1>1 DEF RunInv
  <2>6. rows'[r].next = rows[r].next \/ rows[r].next <= clock
    BY <1>0, <2>2, <2>3, <2>4, <2>5, Shapes
  <2>7. TypeOK'
    BY <1>e, <1>0, <1>1, <1>2, <2>1, <2>4 DEF TypeOK
  <2>8. \A j \in Runs : run[j].rec # Null => rows'[run[j].rec] = rows[run[j].rec]
    BY <1>0, <2>2, <2>4 DEF Locked, RunState
  <2>9. \A j \in Runs : RunInv(j)'
    BY <1>1, <1>2, <2>8, RunsUnaware
  <2>10. ASSUME NEW q \in Recs PROVE RecInv(q)'
    <3>1. CASE q # r
      BY <1>1, <1>2, <2>4, <3>1, RowStays
    <3>2. CASE q = r
      BY <1>1, <2>2, <2>4, <2>6, <3>2, RowMoved
    <3> QED
      BY <3>1, <3>2
  <2> QED
    BY <2>7, <2>9, <2>10 DEF ReminderInv
<1> QED
  BY <1>4, <1>5

LEMMA MemberStep ==
  ASSUME ReminderInv, NEW r \in Recs, ChangeMembership(r)
  PROVE  ReminderInv'
<1>e. excused' \in [Runs -> SUBSET Recs]
  BY ExcusedType DEF Next, Advance
<1>1. TypeOK'
  BY <1>e DEF ReminderInv, TypeOK, ChangeMembership
<1>2. \A i \in Runs : RunInv(i)'
  BY RunsUnaware DEF ChangeMembership
<1>3. \A q \in Recs : RecInv(q)'
  BY RowStays DEF ChangeMembership
<1> QED
  BY <1>1, <1>2, <1>3 DEF ReminderInv

LEMMA TickStep == ReminderInv /\ Tick => ReminderInv'
<1> SUFFICES ASSUME ReminderInv, Tick PROVE ReminderInv'
  OBVIOUS
<1>e. excused' \in [Runs -> SUBSET Recs]
  BY ExcusedType DEF Next
<1>0. TypeOK /\ clock \in Int /\ clock' = clock + 1
  BY Shapes DEF ReminderInv, Tick
<1>1. TypeOK'
  BY <1>e, ReminderConstants DEF ReminderInv, TypeOK, Tick
<1>2. ASSUME NEW i \in Runs PROVE RunInv(i)'
  <2>1. RunInv(i) /\ run' = run /\ rows' = rows /\ sent' = sent /\ unmarked' = unmarked
    BY DEF ReminderInv, Tick
  <2>2. run[i].at # "idle" => run[i].today = clock
    BY DEF Tick
  <2> QED
    BY <1>0, <2>1, <2>2 DEF RunInv
<1>3. ASSUME NEW r \in Recs PROVE RecInv(r)'
  <2>1. RecInv(r) /\ run' = run /\ rows' = rows /\ sent' = sent /\ unmarked' = unmarked
    BY DEF ReminderInv, Tick
  <2>2. ASSUME rows[r] # Null, NEW d \in Dates PROVE Settled(r, d)'
    <3>1. Settled(r, d)
      BY <2>1, <2>2 DEF RecInv
    <3>2. Pending(r, d)' <=> Pending(r, d)
      BY <2>1 DEF Pending
    <3>3. d \in Int
      BY <1>0, Shapes
    <3> QED
      BY <1>0, <2>1, <3>1, <3>2, <3>3 DEF Settled
  <2>3. rows[r] # Null /\ rows[r].reminded # Null => rows[r].reminded \in Int
    BY <1>0, Shapes
  <2> QED
    BY <1>0, <2>1, <2>2, <2>3 DEF RecInv
<1> QED
  BY <1>1, <1>2, <1>3 DEF ReminderInv

-----------------------------------------------------------------------------
(* The steps of a mail.                                                    *)

LEMMA HeldRow ==
  ASSUME ReminderInv, NEW i \in Runs, run[i].at \in {"send", "mark"}
  PROVE  LET r == run[i].rec IN
         /\ r \in Recs /\ rows[r] # Null /\ rows[r] \in Row
         /\ rows[r].next \in Dates /\ rows[r].next \in Int
         /\ clock \in Int /\ clock <= rows[r].next
         /\ rows[r].before # Null => rows[r].next - rows[r].before <= clock
         /\ rows[r].before # Null
         /\ rows[r].reminded # rows[r].next
         /\ \A j \in Runs \ {i} : run[j].rec # r
<1> DEFINE r == run[i].rec
<1>0. TypeOK /\ RunInv(i) /\ run[i] \in RunState
  BY DEF ReminderInv, TypeOK
<1>1. r \in Recs
  BY <1>0 DEF TypeOK, RunState
<1>2. r # Null
  BY <1>0 DEF TypeOK
<1>3. /\ rows[r] # Null /\ InWindow(rows[r], run[i].today)
      /\ rows[r].reminded # rows[r].next
      /\ \A j \in Runs \ {i} : run[j].rec # r
      /\ run[i].today <= clock /\ clock <= run[i].today + 1
  BY <1>0, <1>2 DEF RunInv
<1>4. /\ rows[r] \in Row /\ rows[r].next \in Dates /\ rows[r].next \in Int
      /\ clock \in Int /\ run[i].today \in Int
      /\ rows[r].before # Null => rows[r].before \in Int
  BY <1>0, <1>1, <1>3, Shapes
<1> QED
  BY <1>1, <1>3, <1>4 DEF InWindow

\* Nothing is out for the due date of a row that is about to be mailed.
LEMMA NotYetSent ==
  ASSUME ReminderInv, NEW i \in Runs, run[i].at = "send"
  PROVE  LET r == run[i].rec IN sent[r][rows[r].next] = unmarked[r][rows[r].next]
<1> DEFINE r == run[i].rec
           d == rows[r].next
<1>1. /\ r \in Recs /\ rows[r] # Null /\ d \in Dates /\ d \in Int
      /\ clock \in Int /\ clock <= d /\ rows[r].reminded # d
      /\ \A j \in Runs \ {i} : run[j].rec # r
  BY HeldRow
<1>2. Settled(r, d) /\ unmarked[r][d] <= sent[r][d]
  BY <1>1 DEF ReminderInv, RecInv
<1>3. ~Pending(r, d)
  BY <1>1 DEF Pending
<1>4. sent[r][d] \in Nat /\ unmarked[r][d] \in Nat
  BY <1>1, Shapes DEF ReminderInv
<1> HIDE DEF d, r
<1>5. ~(sent[r][d] > unmarked[r][d])
  BY <1>1, <1>2, <1>3 DEF Settled, d
<1>6. sent[r][d] = unmarked[r][d]
  BY <1>2, <1>4, <1>5
<1> QED
  BY <1>6 DEF d, r

LEMMA AcceptedStep ==
  ASSUME ReminderInv, NEW i \in Runs, SendAccepted(i)
  PROVE  ReminderInv'
<1>e. excused' \in [Runs -> SUBSET Recs]
  BY ExcusedType DEF Next, Advance
<1>a. run[i].at = "send"
  BY DEF SendAccepted
<1>b. PICK r \in Recs : r = run[i].rec
  BY <1>a, HeldRow
<1>c. PICK d \in Dates : d = rows[r].next
  BY <1>a, <1>b, HeldRow
<1>0. /\ TypeOK /\ RunInv(i) /\ RecInv(r)
      /\ run \in [Runs -> RunState] /\ sent \in [Recs -> [Dates -> Nat]]
  BY DEF ReminderInv, TypeOK
<1>1. rows[r] # Null /\ \A j \in Runs \ {i} : run[j].rec # r
  BY <1>a, <1>b, HeldRow
<1>2. /\ sent' = [sent EXCEPT ![r][d] = sent[r][d] + 1]
      /\ run' = [run EXCEPT ![i].at = "mark"]
      /\ UNCHANGED <<clock, rows, members, unmarked, faults>>
  BY <1>0, <1>b, <1>c DEF SendAccepted, Mailed
<1>3. /\ run' \in [Runs -> RunState]
      /\ run'[i].at = "mark" /\ run'[i].rec = r /\ run'[i].today = run[i].today
      /\ \A j \in Runs \ {i} : run'[j] = run[j]
  BY <1>0, <1>2, <1>b DEF RunState
<1>4. sent[r][d] = unmarked[r][d] /\ unmarked[r][d] \in Nat
  BY <1>0, <1>a, <1>b, <1>c, NotYetSent, Shapes
<1>5. /\ sent' \in [Recs -> [Dates -> Nat]]
      /\ sent'[r][d] = unmarked[r][d] + 1
      /\ \A e \in Dates \ {d} : sent'[r][e] = sent[r][e]
      /\ \A q \in Recs \ {r} : sent'[q] = sent[q]
  BY <1>0, <1>1, <1>2, <1>4
<1>6. TypeOK'
  <2>1. r # Null
    BY ReminderConstants
  <2>2. \A j \in Runs : run'[j].at \in {"send", "mark"} <=> run'[j].rec # Null
    BY <1>0, <1>3, <2>1 DEF TypeOK
  <2> QED
    BY <1>e, <1>0, <1>2, <1>3, <1>5, <2>2 DEF TypeOK
<1>7. ASSUME NEW j \in Runs PROVE RunInv(j)'
  <2>1. CASE j = i
    <3>1. /\ run[i].today <= clock /\ clock <= run[i].today + 1
          /\ InWindow(rows[r], run[i].today)
          /\ rows[r].reminded # rows[r].next
      BY <1>0, <1>a, <1>b, HeldRow, ReminderConstants DEF RunInv, TypeOK
    <3>2. \A k \in Runs \ {i} : run'[k].rec # r
      BY <1>1, <1>3
    <3>3. sent'[r][rows[r].next] > unmarked[r][rows[r].next]
      BY <1>4, <1>5, <1>c
    <3> QED
      BY <1>1, <1>2, <1>3, <2>1, <3>1, <3>2, <3>3 DEF RunInv
  <2>2. CASE j # i
    <3>1. RunInv(j) /\ run'[j] = run[j] /\ run[j].rec # r
      BY <1>1, <1>3, <2>2 DEF ReminderInv
    <3>2. \A k \in Runs : run'[k].rec = run[k].rec
      BY <1>3, <1>b
    <3>3. run[j].at = "mark" => run[j].rec \in Recs
      BY <1>0 DEF TypeOK, RunState
    <3>4. run[j].at = "mark" => sent'[run[j].rec] = sent[run[j].rec]
      BY <1>5, <3>1, <3>3
    <3> QED
      BY <1>2, <3>1, <3>2, <3>4 DEF RunInv
  <2> QED
    BY <2>1, <2>2
<1>8. ASSUME NEW q \in Recs PROVE RecInv(q)'
  <2>1. CASE q # r
    <3>1. RecInv(q) /\ sent'[q] = sent[q]
      BY <1>5, <2>1 DEF ReminderInv
    <3>2. \A e : Pending(q, e)' <=> Pending(q, e)
      BY <1>2, <1>3, <1>b, <2>1 DEF Pending
    <3> QED
      BY <1>2, <3>1, <3>2 DEF RecInv, Settled
  <2>2. CASE q = r
    <3>1. \A e \in Dates : unmarked[r][e] <= sent'[r][e] /\ sent'[r][e] <= 1 + unmarked[r][e]
      BY <1>0, <1>4, <1>5 DEF RecInv
    <3>2. rows[r].reminded # Null =>
            /\ rows[r].reminded = rows[r].next \/ rows[r].reminded <= clock
            /\ sent'[r][rows[r].reminded] > unmarked[r][rows[r].reminded]
      <4>1. rows[r].reminded # Null => rows[r].reminded \in Dates
        BY <1>0, <1>1, Shapes
      <4> QED
        BY <1>0, <1>1, <1>4, <1>5, <4>1 DEF RecInv
    <3>3. ASSUME NEW e \in Dates PROVE Settled(r, e)'
      <4>1. CASE e = d
        <5>1. Pending(r, e)'
          BY <1>2, <1>3, <1>c, <4>1 DEF Pending
        <5> QED
          BY <5>1 DEF Settled
      <4>2. CASE e # d
        <5>1. Settled(r, e) /\ ~Pending(r, e) /\ sent'[r][e] = sent[r][e]
          BY <1>0, <1>1, <1>5, <1>c, <4>2 DEF RecInv, Pending
        <5> QED
          BY <1>2, <5>1 DEF Settled
      <4> QED
        BY <4>1, <4>2
    <3> QED
      BY <1>2, <2>2, <3>1, <3>2, <3>3 DEF RecInv
  <2> QED
    BY <2>1, <2>2
<1> QED
  BY <1>6, <1>7, <1>8 DEF ReminderInv

LEMMA UnansweredStep ==
  ASSUME ReminderInv, NEW i \in Runs, SendUnanswered(i)
  PROVE  ReminderInv'
<1>e. excused' \in [Runs -> SUBSET Recs]
  BY ExcusedType DEF Next, Advance
<1>0. /\ TypeOK /\ run[i].at = "send"
      /\ sent \in [Recs -> [Dates -> Nat]] /\ unmarked \in [Recs -> [Dates -> Nat]]
  BY DEF ReminderInv, TypeOK, SendUnanswered
<1>1. PICK r \in Recs : r = run[i].rec
  BY <1>0, HeldRow
<1>d. PICK d \in Dates : d = rows[r].next
  BY <1>0, <1>1, HeldRow
<1>2. /\ sent' = [sent EXCEPT ![r][d] = sent[r][d] + 1]
      /\ unmarked' = [unmarked EXCEPT ![r][d] = unmarked[r][d] + 1]
      /\ UNCHANGED <<clock, rows, members, run>>
      /\ faults' \in 0..MaxFaults
  BY <1>0, <1>1, <1>d, ReminderConstants DEF SendUnanswered, Mailed, Unmarked, Fault, TypeOK
<1>3. /\ sent' \in [Recs -> [Dates -> Nat]] /\ unmarked' \in [Recs -> [Dates -> Nat]]
      /\ \A q \in Recs, e \in Dates :
            \/ sent'[q][e] = sent[q][e] /\ unmarked'[q][e] = unmarked[q][e]
            \/ sent'[q][e] = sent[q][e] + 1 /\ unmarked'[q][e] = unmarked[q][e] + 1
  <2>1. sent[r][d] \in Nat /\ unmarked[r][d] \in Nat
    BY <1>0
  <2>2. sent' \in [Recs -> [Dates -> Nat]] /\ unmarked' \in [Recs -> [Dates -> Nat]]
    BY <1>0, <1>2, <2>1
  <2>3. ASSUME NEW q \in Recs, NEW e \in Dates
        PROVE  \/ sent'[q][e] = sent[q][e] /\ unmarked'[q][e] = unmarked[q][e]
               \/ sent'[q][e] = sent[q][e] + 1 /\ unmarked'[q][e] = unmarked[q][e] + 1
    BY <1>0, <1>2
  <2> QED
    BY <2>2, <2>3
<1>4. \A q \in Recs, e \in Dates :
        /\ sent'[q][e] > unmarked'[q][e] <=> sent[q][e] > unmarked[q][e]
        /\ unmarked[q][e] <= sent[q][e] /\ sent[q][e] <= 1 + unmarked[q][e] =>
              unmarked'[q][e] <= sent'[q][e] /\ sent'[q][e] <= 1 + unmarked'[q][e]
  <2> TAKE q \in Recs, e \in Dates
  <2>1. sent[q][e] \in Nat /\ unmarked[q][e] \in Nat
    BY <1>0
  <2>2. \/ sent'[q][e] = sent[q][e] /\ unmarked'[q][e] = unmarked[q][e]
        \/ sent'[q][e] = sent[q][e] + 1 /\ unmarked'[q][e] = unmarked[q][e] + 1
    BY <1>3
  <2> QED
    BY <2>1, <2>2
<1>5. TypeOK'
  BY <1>e, <1>0, <1>2, <1>3 DEF TypeOK
<1>6. ASSUME NEW j \in Runs PROVE RunInv(j)'
  <2>1. RunInv(j)
    BY DEF ReminderInv
  <2>2. run[j].at = "mark" =>
          run[j].rec \in Recs /\ rows[run[j].rec].next \in Dates
    BY HeldRow
  <2> QED
    BY <1>2, <1>4, <2>1, <2>2 DEF RunInv
<1>7. ASSUME NEW q \in Recs PROVE RecInv(q)'
  <2>1. RecInv(q)
    BY DEF ReminderInv
  <2>2. rows[q] # Null /\ rows[q].reminded # Null => rows[q].reminded \in Dates
    BY <1>0, Shapes
  <2>3. \A e : Pending(q, e)' <=> Pending(q, e)
    BY <1>2 DEF Pending
  <2> QED
    BY <1>2, <1>4, <2>1, <2>2, <2>3 DEF RecInv, Settled
<1> QED
  BY <1>5, <1>6, <1>7 DEF ReminderInv

LEMMA MarkStep ==
  ASSUME ReminderInv, NEW i \in Runs, MarkReminded(i)
  PROVE  ReminderInv'
<1>e. excused' \in [Runs -> SUBSET Recs]
  BY ExcusedType DEF Next, Advance
<1>a. run[i].at = "mark"
  BY DEF MarkReminded
<1>b. PICK r \in Recs : r = run[i].rec
  BY <1>a, HeldRow
<1>c. PICK d \in Dates : d = rows[r].next
  BY <1>a, <1>b, HeldRow
<1>0. /\ TypeOK /\ RunInv(i) /\ RecInv(r)
      /\ run \in [Runs -> RunState] /\ rows \in [Recs -> Row \cup {Null}]
  BY DEF ReminderInv, TypeOK
<1>1. /\ rows[r] # Null /\ rows[r] \in Row /\ rows[r].reminded # d
      /\ d \in Int /\ clock \in Int /\ clock <= d
      /\ \A j \in Runs \ {i} : run[j].rec # r
  BY <1>a, <1>b, <1>c, HeldRow
<1>2. /\ rows' = [rows EXCEPT ![r].reminded = d]
      /\ run' = [run EXCEPT ![i].at = "reminders", ![i].rec = Null,
                            ![i].todo = run[i].todo \ {r}]
      /\ UNCHANGED <<clock, members, sent, unmarked, faults>>
  BY <1>0, <1>b, <1>c DEF MarkReminded, Release
<1>3. /\ run' \in [Runs -> RunState]
      /\ run'[i].at = "reminders" /\ run'[i].rec = Null /\ run'[i].today = run[i].today
      /\ \A j \in Runs \ {i} : run'[j] = run[j]
  BY <1>0, <1>2 DEF RunState
<1>4. /\ rows'[r] \in Row /\ rows'[r].reminded = d /\ rows'[r].next = d
      /\ \A q \in Recs \ {r} : rows'[q] = rows[q]
      /\ rows' \in [Recs -> Row \cup {Null}]
  BY <1>0, <1>1, <1>2, <1>c DEF Row
<1>5. TypeOK'
  BY <1>e, <1>0, <1>2, <1>3, <1>4 DEF TypeOK
<1>6. ASSUME NEW j \in Runs PROVE RunInv(j)'
  <2>1. CASE j = i
    BY <1>0, <1>a, <1>2, <1>3, <2>1 DEF RunInv
  <2>2. CASE j # i
    <3>1. RunInv(j) /\ run'[j] = run[j] /\ run[j].rec # r
      BY <1>1, <1>3, <2>2 DEF ReminderInv
    <3>2. run[j].rec # Null =>
            run[j].rec \in Recs /\ \A k \in Runs \ {j} : run'[k].rec # run[j].rec
      BY <1>0, <1>3, <3>1 DEF RunInv, RunState
    <3>3. run[j].rec # Null => rows'[run[j].rec] = rows[run[j].rec]
      BY <1>4, <3>1, <3>2
    <3>4. run[j].at = "mark" => run[j].rec # Null
      BY <1>0 DEF TypeOK
    <3> QED
      BY <1>2, <3>1, <3>2, <3>3, <3>4 DEF RunInv
  <2> QED
    BY <2>1, <2>2
<1>7. ASSUME NEW q \in Recs PROVE RecInv(q)'
  <2>1. CASE q # r
    <3>1. RecInv(q) /\ rows'[q] = rows[q]
      BY <1>4, <2>1 DEF ReminderInv
    <3>2. \A e : Pending(q, e)' <=> Pending(q, e)
      BY <1>3, <1>b, <2>1, <3>1 DEF Pending
    <3> QED
      BY <1>2, <3>1, <3>2 DEF RecInv, Settled
  <2>2. CASE q = r
    <3>1. sent[r][d] > unmarked[r][d]
      BY <1>0, <1>a, <1>b, <1>c DEF RunInv
    <3>2. ASSUME NEW e \in Dates PROVE Settled(r, e)'
      <4>1. CASE e = d
        BY <1>4, <4>1 DEF Settled
      <4>2. CASE e # d /\ sent[r][e] > unmarked[r][e]
        <5>1. Settled(r, e) /\ ~Pending(r, e) /\ e \in Int
          BY <1>0, <1>1, <1>c, <4>2, Shapes DEF RecInv, Pending
        <5>2. rows[r].reminded = e => e <= clock
          BY <1>0, <1>1, <1>c, <4>2, ReminderConstants, <5>1 DEF RecInv
        <5> QED
          BY <1>1, <1>2, <1>4, <1>c, <4>2, <5>1, <5>2 DEF Settled
      <4> QED
        BY <1>2, <4>1, <4>2 DEF Settled
    <3> QED
      BY <1>0, <1>2, <1>4, <2>2, <3>1, <3>2 DEF RecInv
  <2> QED
    BY <2>1, <2>2
<1> QED
  BY <1>5, <1>6, <1>7 DEF ReminderInv

LEMMA CrashStep ==
  ASSUME ReminderInv, NEW i \in Runs, Crash(i)
  PROVE  ReminderInv'
<1>e. excused' \in [Runs -> SUBSET Recs]
  BY ExcusedType DEF Next, Advance
<1>0. /\ TypeOK
      /\ run \in [Runs -> RunState] /\ unmarked \in [Recs -> [Dates -> Nat]]
      /\ Idle \in RunState /\ Idle.at = "idle" /\ Idle.rec = Null
  BY ReminderConstants DEF ReminderInv, TypeOK, Idle, RunState
<1>1. /\ run' = [run EXCEPT ![i] = Idle]
      /\ UNCHANGED <<clock, rows, members, sent>>
      /\ faults' \in 0..MaxFaults
  BY <1>0, ReminderConstants DEF Crash, Fault, TypeOK
<1>2. run' \in [Runs -> RunState] /\ run'[i] = Idle
      /\ \A j \in Runs \ {i} : run'[j] = run[j]
  BY <1>0, <1>1
<1>3. CASE run[i].at # "mark"
  <2>1. unmarked' = unmarked
    BY <1>3 DEF Crash
  <2>2. \A j \in Runs : RunInv(j)'
    <3> TAKE j \in Runs
    <3>1. RunInv(j)
      BY DEF ReminderInv
    <3>2. CASE j = i
      BY <1>0, <1>2, <3>2 DEF RunInv
    <3>3. CASE j # i
      <4>1. run[j].rec # Null => \A k \in Runs \ {j} : run'[k].rec # run[j].rec
        BY <1>0, <1>2, <3>1 DEF RunInv
      <4> QED
        BY <1>1, <1>2, <2>1, <3>1, <3>3, <4>1 DEF RunInv
    <3> QED
      BY <3>2, <3>3
  <2>3. \A q \in Recs : RecInv(q)'
    BY <1>1, <1>2, <1>3, <2>1, RecKept
  <2>4. TypeOK'
    BY <1>e, <1>0, <1>1, <1>2, <2>1 DEF TypeOK
  <2> QED
    BY <2>2, <2>3, <2>4 DEF ReminderInv
<1>4. CASE run[i].at = "mark"
  <2>1. PICK r \in Recs : r = run[i].rec
    BY <1>4, HeldRow
  <2>2. PICK d \in Dates : d = rows[r].next
    BY <1>4, <2>1, HeldRow
  <2>3. /\ rows[r] # Null /\ rows[r].reminded # d
        /\ \A j \in Runs \ {i} : run[j].rec # r
    BY <1>4, <2>1, <2>2, HeldRow
  <2>4. unmarked' = [unmarked EXCEPT ![r][d] = unmarked[r][d] + 1]
    BY <1>0, <1>4, <2>1, <2>2 DEF Crash, Unmarked
  <2>5. /\ unmarked' \in [Recs -> [Dates -> Nat]]
        /\ unmarked'[r][d] = unmarked[r][d] + 1
        /\ \A e \in Dates \ {d} : unmarked'[r][e] = unmarked[r][e]
        /\ \A q \in Recs \ {r} : unmarked'[q] = unmarked[q]
    BY <1>0, <2>4
  <2>6. TypeOK'
    BY <1>e, <1>0, <1>1, <1>2, <2>5 DEF TypeOK
  <2>7. ASSUME NEW j \in Runs PROVE RunInv(j)'
    <3>1. CASE j = i
      BY <1>0, <1>2, <3>1 DEF RunInv
    <3>2. CASE j # i
      <4>1. RunInv(j) /\ run'[j] = run[j] /\ run[j].rec # r
        BY <1>2, <2>3, <3>2 DEF ReminderInv
      <4>2. run[j].rec # Null => \A k \in Runs \ {j} : run'[k].rec # run[j].rec
        BY <1>0, <1>2, <4>1 DEF RunInv
      <4>3. run[j].at = "mark" => unmarked'[run[j].rec] = unmarked[run[j].rec]
        BY <1>0, <2>5, <4>1 DEF TypeOK, RunState
      <4> QED
        BY <1>1, <4>1, <4>2, <4>3 DEF RunInv
    <3> QED
      BY <3>1, <3>2
  <2>8. ASSUME NEW q \in Recs PROVE RecInv(q)'
    <3>1. CASE q # r
      <4>1. RecInv(q) /\ unmarked'[q] = unmarked[q]
        BY <2>5, <3>1 DEF ReminderInv
      <4>2. \A e : Pending(q, e)' <=> Pending(q, e)
        BY <1>0, <1>1, <1>2, <2>1, <3>1 DEF Pending
      <4> QED
        BY <1>1, <4>1, <4>2 DEF RecInv, Settled
    <3>2. CASE q = r
      <4>0. RecInv(r) /\ \A e \in Dates : sent[r][e] \in Nat /\ unmarked[r][e] \in Nat
        BY <1>0, Shapes DEF ReminderInv
      <4>1. sent[r][d] > unmarked[r][d]
        BY <1>4, <2>1, <2>2 DEF RunInv, ReminderInv
      <4>2. sent[r][d] = unmarked'[r][d]
        <5>1. sent[r][d] <= 1 + unmarked[r][d]
          BY <4>0 DEF RecInv
        <5>2. sent[r][d] \in Nat /\ unmarked[r][d] \in Nat
          BY <4>0
        <5> QED
          BY <2>5, <4>1, <5>1, <5>2
      <4>3. \A e \in Dates :
              unmarked'[r][e] <= sent[r][e] /\ sent[r][e] <= 1 + unmarked'[r][e]
        BY <2>5, <4>0, <4>2 DEF RecInv
      <4>4. rows[r].reminded # Null =>
              /\ rows[r].reminded = rows[r].next \/ rows[r].reminded <= clock
              /\ sent[r][rows[r].reminded] > unmarked'[r][rows[r].reminded]
        <5>1. rows[r].reminded # Null => rows[r].reminded \in Dates \ {d}
          BY <1>0, <2>3, Shapes
        <5> QED
          BY <2>3, <2>5, <4>0, <5>1 DEF RecInv
      <4>5. ASSUME NEW e \in Dates PROVE Settled(r, e)'
        <5>1. CASE e = d
          BY <1>1, <2>5, <4>0, <4>2, <5>1 DEF Settled
        <5>2. CASE e # d
          <6>1. Settled(r, e) /\ ~Pending(r, e) /\ unmarked'[r][e] = unmarked[r][e]
            BY <2>2, <2>3, <2>5, <4>0, <5>2 DEF RecInv, Pending
          <6> QED
            BY <1>1, <6>1 DEF Settled
        <5> QED
          BY <5>1, <5>2
      <4> QED
        BY <1>1, <3>2, <4>3, <4>4, <4>5 DEF RecInv
    <3> QED
      BY <3>1, <3>2
  <2> QED
    BY <2>6, <2>7, <2>8 DEF ReminderInv
<1> QED
  BY <1>3, <1>4

-----------------------------------------------------------------------------

LEMMA StutterStep == ReminderInv /\ UNCHANGED vars => ReminderInv'
<1> SUFFICES ASSUME ReminderInv, UNCHANGED vars PROVE ReminderInv'
  OBVIOUS
<1>1. TypeOK'
  BY DEF ReminderInv, TypeOK, vars
<1>2. \A i \in Runs : RunInv(i)'
  BY RunsUnaware DEF vars
<1>3. \A q \in Recs : RecInv(q)'
  BY RowStays DEF vars
<1> QED
  BY <1>1, <1>2, <1>3 DEF ReminderInv

LEMMA InvStep == ReminderInv /\ [Next]_vars => ReminderInv'
<1> SUFFICES ASSUME ReminderInv, [Next]_vars PROVE ReminderInv'
  OBVIOUS
<1>1. ASSUME NEW i \in Runs, StartRun(i) \/ Advance(i) \/ SendUnanswered(i) \/ Crash(i)
      PROVE  ReminderInv'
  BY <1>1, QuietSteps, LockStep, GenerateStep, AcceptedStep, MarkStep, UnansweredStep,
     CrashStep DEF Advance
<1>2. ASSUME NEW r \in Recs, PatchRecurring(r) \/ DeleteRecurring(r) \/ ChangeMembership(r)
      PROVE  ReminderInv'
  BY <1>2, PatchStep, MemberStep
<1> QED
  BY <1>1, <1>2, TickStep, StutterStep DEF Next

\* At every moment of every run, a locked row is in its window, unmarked and held by one
\* invocation, and a mail that went out is marked, about to be, or out of reach.
THEOREM InvHolds == Spec => []ReminderInv
<1> QED
  BY InitInv, InvStep, PTL DEF Spec

\* The types of the reminder pass (backend/app/recurring/generation.py), for any
\* recurrences, invocations, days and faults.
THEOREM RemindersTypeCorrect == Spec => []TypeOK
<1>1. ReminderInv => TypeOK
  BY DEF ReminderInv
<1> QED
  BY <1>1, InvHolds, PTL

\* No due date is reminded of twice but for a mail whose mark was lost, however many
\* invocations overlap and wherever they are cut off.
THEOREM RemindedOnce == Spec => []SentOnce
<1>1. ReminderInv => SentOnce
  BY DEF ReminderInv, RecInv, SentOnce
<1> QED
  BY <1>1, InvHolds, PTL

\* What is marked as reminded of went out.
THEOREM MarkIsHonest == Spec => []MarkedWasSent
<1>1. ReminderInv => MarkedWasSent
  BY DEF ReminderInv, RecInv, MarkedWasSent
<1> QED
  BY <1>1, InvHolds, PTL

\* A mail goes out inside the window the row has at that moment and never after the
\* due date, also when the invocation runs past midnight.
THEOREM RemindedInTime == Spec => SentInTime
<1>1. ReminderInv /\ [Next]_vars =>
        [\A r \in Recs, d \in Dates : sent'[r][d] # sent[r][d] =>
            /\ d = rows[r].next /\ clock <= d
            /\ rows[r].before # Null /\ d - rows[r].before <= clock]_vars
  <2> SUFFICES ASSUME ReminderInv, Next, NEW r \in Recs, NEW d \in Dates,
                      sent'[r][d] # sent[r][d]
               PROVE  /\ d = rows[r].next /\ clock <= d
                      /\ rows[r].before # Null /\ d - rows[r].before <= clock
    OBVIOUS
  <2>1. PICK i \in Runs : SendAccepted(i) \/ SendUnanswered(i)
    BY DEF Next, Advance, StartRun, Generate, LockRow, SkipRow, SkipLocked, ScanReminders,
           SendFails, MarkReminded, EndRun, Crash, PatchRecurring, DeleteRecurring,
           ChangeMembership, Tick
  <2>2. run[i].at = "send" /\ Mailed(run[i].rec)
    BY <2>1 DEF SendAccepted, SendUnanswered
  <2>3. r = run[i].rec /\ d = rows[r].next
    BY <2>2 DEF Mailed, ReminderInv, TypeOK
  <2> QED
    BY <2>2, <2>3, HeldRow
<1> QED
  BY <1>1, InvHolds, PTL DEF Spec, SentInTime

-----------------------------------------------------------------------------
(* What an invocation leaves behind.                                       *)

\* What is off the list of an invocation and not excused needs no reminder.  The row it
\* holds stays on its list until it lets it go.
PassInv(i) ==
    run[i].at \in Passing =>
        \A r \in Recs \ (run[i].todo \cup excused[i]) :
            rows[r] # Null => ~Remindable(r, run[i].today)

\* A recurrence that is newly off the list, or whose row has changed, is not remindable.
LEMMA PassKept ==
  ASSUME NEW i \in Runs, PassInv(i),
         run'[i].at \in Passing =>
            /\ run[i].at \in Passing /\ run'[i].today = run[i].today
            /\ \A r \in Recs \ (run'[i].todo \cup excused'[i]) : rows'[r] # Null =>
                  \/ /\ r \notin run[i].todo \cup excused[i]
                     /\ rows'[r] = rows[r] /\ members' = members
                  \/ Remindable(r, run[i].today)' = FALSE
  PROVE  PassInv(i)'
<1> SUFFICES ASSUME run'[i].at \in Passing,
                    NEW r \in Recs \ (run'[i].todo \cup excused'[i]), rows'[r] # Null
             PROVE  ~Remindable(r, run[i].today)'
  BY DEF PassInv
<1>1. CASE /\ r \notin run[i].todo \cup excused[i]
           /\ rows'[r] = rows[r] /\ members' = members
  <2>1. ~Remindable(r, run[i].today)
    BY <1>1 DEF PassInv
  <2> QED
    BY <1>1, <2>1 DEF Remindable, InWindow
<1>2. CASE Remindable(r, run[i].today)' = FALSE
  BY <1>2
<1> QED
  BY <1>1, <1>2

\* A step that excuses r for the lists under way may do with r what it likes.
LEMMA PassExcused ==
  ASSUME TypeOK, NEW i \in Runs, PassInv(i), NEW r \in Recs, Excuse(r),
         run'[i].at \in Passing =>
            /\ run[i].at \in Passing
            /\ run'[i].today = run[i].today /\ run'[i].todo = run[i].todo,
         \A q \in Recs \ {r} : rows'[q] = rows[q] /\ (q \in members' <=> q \in members)
  PROVE  PassInv(i)'
<1> SUFFICES ASSUME run'[i].at \in Passing,
                    NEW q \in Recs \ (run'[i].todo \cup excused'[i]), rows'[q] # Null
             PROVE  ~Remindable(q, run[i].today)'
  BY DEF PassInv
<1>1. excused'[i] = excused[i] \cup {r}
  BY DEF Excuse
<1>2. q # r /\ rows'[q] = rows[q] /\ (q \in members' <=> q \in members)
  BY <1>1
<1>3. ~Remindable(q, run[i].today)
  BY <1>1, <1>2 DEF PassInv
<1> QED
  BY <1>2, <1>3 DEF Remindable, InWindow

LEMMA PassRunStep ==
  ASSUME ReminderInv, NEW i \in Runs, PassInv(i), NEW j \in Runs,
         StartRun(j) \/ Advance(j) \/ SendUnanswered(j) \/ Crash(j)
  PROVE  PassInv(i)'
<1>0. /\ TypeOK
      /\ run \in [Runs -> RunState] /\ excused \in [Runs -> SUBSET Recs]
      /\ rows \in [Recs -> Row \cup {Null}]
  BY DEF ReminderInv, TypeOK
<1>1. CASE StartRun(j)
  <2>1. UNCHANGED <<rows, members, excused>>
    BY <1>1 DEF StartRun
  <2>2. run'[j].at = "generation" /\ \A k \in Runs \ {j} : run'[k] = run[k]
    BY <1>0, <1>1 DEF StartRun, Idle
  <2>3. run'[i].at \in Passing => run'[i] = run[i]
    BY <2>2 DEF Passing
  <2> QED
    BY <2>1, <2>3, PassKept
<1>2. ASSUME NEW r \in Recs, Generate(j, r) PROVE PassInv(i)'
  <2>1. /\ run[j].at = "generation" /\ members' = members
        /\ run' = [run EXCEPT ![j].todo = run[j].todo \ {r}]
    BY <1>2 DEF Generate
  <2>2. run'[i].at \in Passing => i # j /\ run[i].at \in Passing /\ run'[i] = run[i]
    BY <1>0, <2>1 DEF Passing, RunState
  <2>3. CASE UNCHANGED <<rows, excused>>
    BY <2>1, <2>2, <2>3, PassKept
  <2>4. CASE Excuse(r) /\ \A q \in Recs \ {r} : rows'[q] = rows[q]
    BY <1>0, <2>1, <2>2, <2>4, PassExcused
  <2> QED
    BY <1>0, <1>2, <2>3, <2>4 DEF Generate
<1>3. CASE ScanReminders(j)
  <2>1. /\ UNCHANGED <<rows, members, excused>>
        /\ run' = [run EXCEPT ![j].at = "reminders", ![j].todo = {r \in Recs :
              rows[r] # Null /\ InWindow(rows[r], run[j].today)}]
    BY <1>3 DEF ScanReminders
  <2>2. CASE i # j
    <3>1. run'[i] = run[i]
      BY <1>0, <2>1, <2>2
    <3> QED
      BY <2>1, <3>1, PassKept
  <2>3. CASE i = j
    <3>1. /\ run'[i].today = run[i].today
          /\ run'[i].todo = {r \in Recs : rows[r] # Null /\ InWindow(rows[r], run[i].today)}
      BY <1>0, <2>1, <2>3 DEF RunState
    <3> QED
      BY <2>1, <3>1 DEF PassInv, Remindable, InWindow
  <2> QED
    BY <2>2, <2>3
<1>4. ASSUME NEW r \in Recs, LockRow(j, r) PROVE PassInv(i)'
  <2>1. /\ UNCHANGED <<rows, members, excused>> /\ run[j].at = "reminders"
        /\ run' = [run EXCEPT ![j].at = "send", ![j].rec = r]
    BY <1>4 DEF LockRow
  <2>2. run'[i].today = run[i].today /\ run'[i].todo = run[i].todo
    BY <1>0, <2>1 DEF RunState
  <2>3. run'[i].at \in Passing => run[i].at \in Passing
    BY <1>0, <2>1 DEF Passing, RunState
  <2> QED
    BY <2>1, <2>2, <2>3, PassKept
<1>5. ASSUME NEW r \in Recs, SkipRow(j, r) PROVE PassInv(i)'
  <2>1. /\ UNCHANGED <<rows, members, excused>> /\ run[j].at = "reminders"
        /\ run' = [run EXCEPT ![j].todo = run[j].todo \ {r}]
        /\ rows[r] # Null => ~Remindable(r, run[j].today)
    BY <1>5 DEF SkipRow, ToRemind
  <2>2. run'[i].today = run[i].today /\ run'[i].at = run[i].at
    BY <1>0, <2>1 DEF RunState
  <2>3. CASE i # j
    <3>1. run'[i] = run[i]
      BY <1>0, <2>1, <2>3
    <3> QED
      BY <2>1, <3>1, PassKept
  <2>4. CASE i = j
    <3>1. run'[i].todo = run[i].todo \ {r}
      BY <1>0, <2>1, <2>4 DEF RunState
    <3>2. rows'[r] # Null => Remindable(r, run[i].today)' = FALSE
      BY <2>1, <2>2, <2>4 DEF Remindable, InWindow
    <3> QED
      BY <2>1, <2>2, <3>1, <3>2, PassKept
  <2> QED
    BY <2>3, <2>4
<1>6. ASSUME NEW r \in Recs, SkipLocked(j, r) PROVE PassInv(i)'
  <2>1. /\ UNCHANGED <<rows, members>>
        /\ run' = [run EXCEPT ![j].todo = run[j].todo \ {r}]
        /\ excused' = [excused EXCEPT ![j] = excused[j] \cup {r}]
    BY <1>6 DEF SkipLocked
  <2>2. run'[i].today = run[i].today /\ run'[i].at = run[i].at
    BY <1>0, <2>1 DEF RunState
  <2>3. run[i].todo \cup excused[i] \subseteq run'[i].todo \cup excused'[i]
    BY <1>0, <2>1 DEF RunState
  <2> QED
    BY <2>1, <2>2, <2>3, PassKept
<1>7. CASE SendAccepted(j) \/ SendUnanswered(j)
  <2>1. /\ UNCHANGED <<rows, members, excused>> /\ run[j].at = "send"
        /\ run' = run \/ run' = [run EXCEPT ![j].at = "mark"]
    BY <1>7 DEF SendAccepted, SendUnanswered
  <2>2. run'[i].today = run[i].today /\ run'[i].todo = run[i].todo
    BY <1>0, <2>1 DEF RunState
  <2>3. run'[i].at \in Passing => run[i].at \in Passing
    BY <1>0, <2>1 DEF Passing, RunState
  <2> QED
    BY <2>1, <2>2, <2>3, PassKept
<1>8. CASE SendFails(j) \/ MarkReminded(j)
  <2>1. PICK r \in Recs : r = run[j].rec /\ rows[r] # Null
    BY <1>8, HeldRow DEF SendFails, MarkReminded
  <2>2. /\ run' = [run EXCEPT ![j].at = "reminders", ![j].rec = Null,
                              ![j].todo = run[j].todo \ {r}]
        /\ members' = members /\ run[j].at \in Passing
    BY <1>8, <2>1 DEF SendFails, MarkReminded, Release, Passing
  <2>3. /\ run'[i].today = run[i].today
        /\ run'[i].at \in Passing => run[i].at \in Passing
        /\ run[i].todo \ {r} \subseteq run'[i].todo
        /\ i # j => run'[i] = run[i]
    BY <1>0, <2>2 DEF Passing, RunState
  <2>4. CASE SendFails(j)
    <3>1. rows' = rows /\ excused' = [excused EXCEPT ![j] = excused[j] \cup {r}]
      BY <2>1, <2>4 DEF SendFails
    <3>2. run[i].todo \cup excused[i] \subseteq run'[i].todo \cup excused'[i]
      BY <1>0, <2>3, <3>1
    <3> QED
      BY <2>2, <2>3, <3>1, <3>2, PassKept
  <2>5. CASE MarkReminded(j)
    <3>1. excused' = excused /\ rows' = [rows EXCEPT ![r].reminded = rows[r].next]
      BY <2>1, <2>5 DEF MarkReminded
    <3>2. /\ rows'[r].reminded = rows'[r].next
          /\ \A q \in Recs \ {r} : rows'[q] = rows[q]
      BY <1>0, <2>1, <3>1 DEF Row
    <3>3. Remindable(r, run[i].today)' = FALSE
      BY <3>2 DEF Remindable
    <3> QED
      BY <2>2, <2>3, <3>1, <3>2, <3>3, PassKept
  <2> QED
    BY <1>8, <2>4, <2>5
<1>9. CASE EndRun(j) \/ Crash(j)
  <2>1. /\ UNCHANGED <<rows, members>> /\ run' = [run EXCEPT ![j] = Idle]
        /\ excused' = [excused EXCEPT ![j] = {}]
    BY <1>9 DEF EndRun, Crash
  <2>2. CASE i = j
    BY <1>0, <2>1, <2>2 DEF PassInv, Passing, Idle
  <2>3. CASE i # j
    <3>1. run'[i] = run[i] /\ excused'[i] = excused[i]
      BY <1>0, <2>1, <2>3
    <3> QED
      BY <2>1, <3>1, PassKept
  <2> QED
    BY <2>2, <2>3
<1> QED
  BY <1>1, <1>2, <1>3, <1>4, <1>5, <1>6, <1>7, <1>8, <1>9 DEF Advance

LEMMA PassWorldStep ==
  ASSUME ReminderInv, NEW i \in Runs, PassInv(i),
         \/ \E r \in Recs : PatchRecurring(r) \/ DeleteRecurring(r) \/ ChangeMembership(r)
         \/ Tick \/ UNCHANGED vars
  PROVE  PassInv(i)'
<1>0. TypeOK /\ rows \in [Recs -> Row \cup {Null}]
  BY DEF ReminderInv, TypeOK
<1>1. ASSUME NEW r \in Recs, PatchRecurring(r) PROVE PassInv(i)'
  <2>1. UNCHANGED <<members, run>> /\ Excuse(r)
    BY <1>1 DEF PatchRecurring
  <2>2. \A q \in Recs \ {r} : rows'[q] = rows[q]
    BY <1>0, <1>1 DEF PatchRecurring
  <2> QED
    BY <1>0, <2>1, <2>2, PassExcused
<1>2. ASSUME NEW r \in Recs, ChangeMembership(r) PROVE PassInv(i)'
  <2>1. /\ UNCHANGED <<rows, run>> /\ Excuse(r)
        /\ \A q \in Recs \ {r} : q \in members' <=> q \in members
    BY <1>2 DEF ChangeMembership
  <2> QED
    BY <1>0, <2>1, PassExcused
<1>3. ASSUME NEW r \in Recs, DeleteRecurring(r) PROVE PassInv(i)'
  <2>1. UNCHANGED <<members, run, excused>> /\ rows' = [rows EXCEPT ![r] = Null]
    BY <1>3 DEF DeleteRecurring
  <2>2. \A q \in Recs : rows'[q] # Null => rows'[q] = rows[q]
    BY <1>0, <2>1
  <2> QED
    BY <2>1, <2>2, PassKept
<1>4. CASE Tick \/ UNCHANGED vars
  BY <1>4, PassKept DEF Tick, vars
<1> QED
  BY <1>1, <1>2, <1>3, <1>4

\* An invocation at the end of its list leaves behind only what SES refused it, what it
\* found locked and what changed since its scan: for any recurrences, days and number of
\* overlapping invocations, crashes and lost answers included.
THEOREM PassLeavesNothing == Spec => []PassIsComplete
<1> DEFINE AllPass == \A i \in Runs : PassInv(i)
<1>1. Init => AllPass
  BY DEF Init, Idle, PassInv, Passing
<1>2. ReminderInv /\ AllPass /\ [Next]_vars => AllPass'
  <2> SUFFICES ASSUME ReminderInv, AllPass, [Next]_vars, NEW i \in Runs PROVE PassInv(i)'
    OBVIOUS
  <2>1. PassInv(i)
    OBVIOUS
  <2>2. ASSUME NEW j \in Runs, StartRun(j) \/ Advance(j) \/ SendUnanswered(j) \/ Crash(j)
        PROVE  PassInv(i)'
    BY <2>1, <2>2, PassRunStep
  <2>3. ASSUME \/ \E r \in Recs :
                      PatchRecurring(r) \/ DeleteRecurring(r) \/ ChangeMembership(r)
               \/ Tick \/ UNCHANGED vars
        PROVE  PassInv(i)'
    BY <2>1, <2>3, PassWorldStep
  <2> QED
    BY <2>2, <2>3 DEF Next
<1>3. AllPass => PassIsComplete
  BY DEF PassInv, PassIsComplete, Passing
<1> QED
  BY <1>1, <1>2, <1>3, InvHolds, PTL DEF Spec
=============================================================================
