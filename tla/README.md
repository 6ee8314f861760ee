# walleza in TLA+

walleza is a personal-finance application: a FastAPI backend on AWS Lambda
(`src/backend/app`), PostgreSQL, an Angular front end (`src/frontend`), an S3 bucket of
receipts read by Textract, and a scheduler that runs once a day (`src/infra`). This
directory holds TLA+ models of its concurrent parts, the TLC configurations that check
them, and proofs of their main properties.

To run: `tlc -config RecurringGeneration.cfg MCRecurringGeneration.tla`, and so on for each
configuration below; `tlapm RecurringGenerationProofs.tla`, and so on for each `...Proofs`.

| Module | What it is |
|---|---|
| `Calendar` | `shift` of `recurring/generation.py` and the Python date arithmetic under it |
| `RecurringGeneration` | the recurrence table, scheduler runs, requests, members, days, crashes |
| `RecurringLedger` | the abstract promise `RecurringGeneration` implements |
| `RecurringReminders` | the reminder pass: lock, send, mark, with crashes and lost answers of SES |
| `OcrDrafts` | photo-capture drafts: requests, browser pages, OCR worker, sweep |
| `Membership` | workspaces, members, ownership and invites under overlapping requests |
| `AuthSessions` | refresh-token families, the browser's cookie, deactivation, administrators |
| `CategorySplits` | amounts and their splits for transactions, templates and recurrences; receipts |
| `Reports` | breakdown, trend, budget progress and transfer conversion, as pure operators |
| `Bookkeeping` | accounts, categories, budgets and transfers under overlapping requests; uses `Reports` |
| `MC...` | the instance of a module that TLC checks |
| `...Proofs` | the theorems about a module: `RecurringGeneration`, `RecurringReminders`, `OcrDrafts`, `Membership`, `AuthSessions`, `CategorySplits`, `Bookkeeping` |
| `ArithmeticProofs` | the laws of finite sums and of the calendar that the proofs about money and dates rest on |

`PROJECT.json` maps every definition to the lines it models, and lists the components, the
runs, a mutated definition that breaks each property, the findings, the hazards and the
theorems.

## 1. Inventory of the system

Every HTTP request runs in one database session and one READ COMMITTED transaction
(`db.py`: no autoflush, no pool). Handlers read, decide and write; no handler takes a lock
in advance. Only three places lock rows explicitly: generation and reminders
(`FOR UPDATE SKIP LOCKED`) and the OCR worker (`FOR UPDATE`). Everything else relies on
constraints and on the row locks that UPDATE and DELETE take by themselves.

### Components with behaviour

| Component | State | Operations | Talks to | Hard behaviour | Correct when |
|---|---|---|---|---|---|
| Occurrence generation (`recurring/generation.py`, Pass A of `scheduler.py`) | `recurring_transaction` (cursor `occurrence_index`, `next_date`), `recurring_occurrence`, `transaction` | `run`, `_generate_for_recurrence`, `scope_for_recurrence` | recurrence requests through the row lock, members, `create_transaction` | overlapping invocations, crashes between recurrences, catch-up under a cap, errors, pauses, patches of the row under its feet | each occurrence is posted once, in order, none skipped; the backlog drains |
| Calendar arithmetic | none | `shift` | generation | month-end clamping, leap years | strictly increasing, no drift from the anchor's day |
| Recurrence CRUD (`recurring/service.py`) | the same row, its splits | create, patch, delete | generation | patches the schedule a cursor counts on; splits checked against an amount about to change | the cursor still means what it meant |
| Reminders (Pass B) | `last_reminded_for_date` | `run_reminders` | SES | sends before it marks | at most one mail too many per crash |
| OCR worker (`ocr_worker.py`, `ocr/extraction.py`) | `transaction.ocr_status`, `transaction_ocr_extraction` | `process` | S3 events, Textract, drafts | events at least once, no retry after a failure, event before row | status and extraction agree; one extraction per draft |
| Draft life cycle (`transactions/service.py`, `router.py`) | the draft row, `photo_uploaded_at` | draft-from-photo, poll, confirm, delete, photo | worker, sweep, browser | daily limit by count-then-insert; confirm races worker and sweep | a draft is confirmed once, a confirmed row is the user's |
| Sweep (`ocr/cleanup.py`, Pass C) | the same rows, S3 objects | `sweep_abandoned_drafts` | drafts | scan and delete apart, S3 after commit | stale drafts go, nothing else does |
| Capture and confirm pages (browser) | page state, poll, hand-off | poll, time out, manual entry, reload | draft requests | late answers, lost draft ids | the user sees what was extracted, and gets out |
| Transactions and splits | `transaction`, `transaction_category_split`, receipts in S3 | create, update, delete, photo | accounts, categories | amount and splits patched apart | splits sum to the amount |
| Workspaces, members, invites (`workspace/service.py`) | `workspace`, `workspace_member`, `workspace_invite` | invite, accept, leave, remove, transfer ownership | authorization, scheduler | two acceptances, two transfers, leave during accept; solo workspace deleted after a count | one owner, one membership per user, an invite used once |
| Sessions (`auth/session.py`) | families of `auth_session`, the refresh cookie | login, refresh, logout, revoke | users, admin | two refreshes with one token, lost answers, deactivation during refresh | a dead family stays dead; nobody honest is taken for a thief |
| Platform administration (`admin/`) | `platform_admin`, `deactivated_at` | grant, revoke, (de)activate, bootstrap | sessions, workspaces | deactivation during a login or a refresh; last admin, bootstrap again | a deactivated user gets no token |
| Categories | two-level tree | create, re-parent, delete | reports, splits | read-then-write of a hierarchy | never a third level |
| Templates | presets and their splits | CRUD, apply | transactions | as splits | as splits |
| Accounts | currency, archived flag | CRUD | everything | currency changes under budgets | balances and budgets agree on currency |
| Budgets | limits | CRUD, status | accounts, categories | currency pinned | spent is what was spent |
| Transfers | two amounts and a rate | CRUD | accounts | rounding | received amount matches the rate |
| Reports | none | aggregation | categories | roll-up, bucket bounds | every split counted once |

### Components without behaviour of their own

Textract response mapping (parsing), Google sign-in (network and cryptography), the audit
log (one insert in the caller's transaction), notifications (one SES call), receipt storage
(presigned URLs and deletes, present in `OcrDrafts` as `objects`), the application shell
(routing, configuration), the edge worker (a stateless proxy), migrations and Terraform
(read for constraints, retries, timeouts and concurrency). The front end beyond the two
receipt pages is forms, lists and charts over the API.

### How the parts meet

- The daily schedule invokes the scheduler Lambda: Pass A (generation), then Pass B
  (reminders), then Pass C (sweep). EventBridge retries once and the function has no
  reserved concurrency, so two invocations may overlap, and each may be cut off at 300 s.
- Requests and runs meet in the row lock of a recurrence. Requests, worker and sweep meet
  in the row lock of a draft.
- The browser uploads to S3 with a presigned POST; S3 announces the object to the OCR
  worker, at least once. The worker is not retried (`ocr.tf:191-194`).
- Deleting S3 objects happens after a commit and is best-effort.

## 2. Plan

The most consequential behaviour, money posted without anyone looking, comes first.

| # | Modules | Content | State |
|---|---|---|---|
| 1 | `Calendar`, `RecurringGeneration`, `RecurringLedger`, proofs | Pass A and everything that meets it; refinement of the ledger | done |
| 2 | `OcrDrafts`, proofs | drafts, worker, sweep, pages | done |
| 3 | `RecurringReminders`, proofs | Pass B: lock, send, mark; crashes between them | done |
| 4 | `Membership`, proofs | onboarding, invites, accept, leave, remove, transfer as read-then-write requests | done |
| 5 | `CategorySplits`, proofs | create, patch and confirm of amount and splits for three tables, receipts | done |
| 6 | `AuthSessions`, proofs | rotation, reuse, family revocation, logout, deactivation, admins | done |
| 7 | `Reports`, `Bookkeeping`, proofs | the tree of categories, pinned budgets, transfers, and the three aggregate queries over them | done |
| 8 | later | budget classification and default currency; Textract's formats | left out, see section 10 |

Modules 4 to 7 share a shape: a request is a transaction of a few statements at READ
COMMITTED, so a constant number of concurrent requests with a record each is enough, and the
constraints of the migrations are guards of the statements. Two requests at once suffice,
since every race listed as a hazard is between two requests.

## 3. Occurrence generation

### State and actions

| Model | Code |
|---|---|
| `recs`, `row`, `lock` | rows of `recurring_transaction`, with their row lock (`Free`, `Http` for a request, or a run) |
| `occurrences` | `recurring_occurrence`, primary key (recurrence, date) |
| `ledger` | history: dates of the transactions generation has committed |
| `altered` | history: recurrences whose `period` or `repeat_every` was patched |
| `pc`, `day`, `due` | a run: its place, the clock it read once, the ids left of its scan |
| `cur`, `tx` | the recurrence it holds and its uncommitted writes (cursor, date, batch) |
| `StartRun` | `handler` reads the clock and `run` scans the due ids |
| `SkipRow`, `PauseRow`, `LockRow` | `FOR UPDATE SKIP LOCKED`, then `scope_for_recurrence` |
| `PostOccurrence`, `PassOverOccurrence`, `FailOccurrence` | one iteration: INSERT ... ON CONFLICT DO NOTHING, `create_transaction`, cursor |
| `CommitRow`, `Crash` | the one COMMIT per recurrence; a timeout or lost connection |
| `CreateRecurring`, `BeginRequest`, `PatchRecurring`, `DeleteRecurring`, `AbortRequest` | the HTTP handlers |

Choices made:

- The order of the due scan (`next_date`, `id`) is left open: `due` is a set, any order is
  allowed. Reading the clock and scanning are one step, since the scan uses that clock and
  nothing else. Locking a row and checking its scope are one step: the check reads one row.
- A PATCH is placed at its UPDATE; the ORM writes only changed columns and never the cursor,
  `next_date` or `starts_on`. The validation before it decides only whether it is refused.
- `postable` stands for "`create_transaction` accepts this row": the account is visible to
  the creator and the splits sum to the amount. A PATCH sets it either way.
- `MustWait` (an insert waiting for another transaction's uncommitted key) is never true
  while the row lock works; it is there because it is what PostgreSQL does if it does not, and
  the mutant without the lock reaches it.
- Deleting a generated transaction is an ordinary request that generation never looks at;
  `ledger` is history and does not change with it.
- A COMMIT whose answer is lost is a commit or a rollback, both of which are steps.
- Recurrence ids are never used twice.

### Runs

| Configuration | Checks | Instance |
|---|---|---|
| `RecurringGeneration` | `TypeOK`, `NoDuplicatePosting`, `LedgerFollowsSchedule`, `OccurrenceRowsMatchLedger`, `GenerationInv`, `CursorNeverMovesBack`, `EndDateRespected`, `LedgerPromise`; `CatchesUp`, `RunsTerminate` under `FairSpec` | 1 recurrence, 2 runs, 2 days, monthly and two-monthly from 31 January 2024, an end date of 1 March, cap 2, 1 crash; 53 520 states, about 155 s |

Bounds, and why they are enough. A run holds one recurrence at a time and recurrences share
nothing but the scan, so one recurrence shows every interaction of runs and requests on a
row; the proofs cover any number. Two runs suffice for an overlap, and a run may finish and
start again any number of times. The clock stands at 15 March, when two monthly
occurrences are due (a full cap) or one two-monthly one, and then at 31 March, when one more
has fallen due, so runs post nothing, one occurrence, a full cap, and a rest; and in between a PATCH
of the cadence can make an occurrence due that the scan does not find. 31 January 2024 makes the month-end clamp matter (29 February, 31 March): a schedule
counted from the previous occurrence would differ. The end date of 1 March cuts the schedule
between two occurrences. `MaxIndex` lies beyond the last day, which `ShiftAssumption` states
and TLC evaluates. `MaxCrashes` is 1; crashes roll back completely, so a second one meets the
states a first one does. The same run with four days (152 280 states) shows nothing else. There is
no `SYMMETRY`, because the run checks liveness.

Fairness: weak, on the steps of each run together and on the end of a request that has
begun. A Lambda that is not cut off goes on; the schedule fires daily, so an idle run starts
again; an HTTP transaction ends. Nothing is assumed of members, patches, the clock, or
crashes. `CatchesUp` says: a recurrence that is in the end left unhindered (creator a
member, row postable, no request on it) has nothing due, again and again, with one exception:
after a PATCH of its cadence, what is due may wait until the old `next_date` has come. It takes one
run for every `Cap` occurrences, and there is one run a day: what is due stays due, so that the
runs of the last day of the model stand for those of all later days. A row that `create_transaction`
refuses is not postable, and of such a one nothing is said. `RunsTerminate` says no run hangs,
whatever it finds locked or inserted.

The refinement is `Promise == INSTANCE RecurringLedger WITH clock <- today, posted <- ledger`;
`LedgerPromise` is its specification as a property.

### Where documents and code differ

- `update_recurring` changes `period` or `repeat_every` and leaves `occurrence_index` and
  `next_date`: the index now counts in another schedule, while the scan still goes by the old
  date. Two things follow that catch-up "generates every missed occurrence" and "never
  fast-forwards" (`generation.py:42-47`) do not lead one to expect. An occurrence of the new schedule
  can be due in a row that the scan does not find: this is the exception `OutOfScan` of
  `CatchesUp`, without which TLC finds it violated, in that very run. And a due date of the new
  schedule, later than anything posted, can be behind the index, so that no run will ever post it; so
  `LedgerFollowsSchedule` is stated for recurrences whose cadence was left alone. The other
  way round, an every-two-months recurrence patched to monthly looks again at an occurrence it has
  posted, which a test says cannot happen ("The cursor alone would never revisit an already-passed
  occurrence", `test_generation.py:310-312`); there `ON CONFLICT` keeps the money right
  (`NoDuplicatePosting` holds).
- The docstring of `scope_for_recurrence` says membership is re-read exactly as
  `require_membership` does; that one also refuses writes to a deactivated workspace,
  generation does not.

### Proofs

`RecurringGenerationProofs` proves, for all constants that satisfy `ConstantsAssumption` and
`ShiftAssumption` (any sets of recurrences, runs and users, any cap, any strictly increasing
schedule within the horizon): `TypeCorrect`, `GenerationInvariant`, `PostedOnce`,
`SchedulePrefix`, `RowsAndPostingsAgree`, `CursorMonotone`, `EndDateHolds` and
`KeepsLedgerPromise`.

No safety invariant is inductive alone: that a commit posts nothing twice depends on what the
open transaction has collected. `GenerationInv` adds `InTransaction(p)` for each run in
its loop: it owns the row lock; its batch is new, due, within `ends_on` and capped; and
unless the cadence was patched it is the stretch of the schedule from the cursor on. It also
says that unused ids have empty ledgers, that only present rows are locked, that a run's clock
is not ahead of today, and that nothing was posted early. TLC checks it as an invariant
first.

The argument: requests and the world leave open transactions alone, because the row lock
keeps requests away (`TransactionFrame`, `RequestInv`, `WorldInv`); two runs in their loops
hold different rows (`RunsHoldDifferentRows`, `OtherRuns`); an iteration extends the stretch
by one (`LoopStepInv`, `DueOccurrenceIsNew`: with the cadence unaltered the occurrence that is
due is later than everything posted, so it is never a conflict); a commit appends a stretch to
a prefix (`ConcatStretch`, `ConcatDistinct`, `CommittedRecurrence`); a rollback forgets
(`RollbackInv`). The action properties and the refinement follow since only a commit
writes the ledger or the cursor of a present row (`WhoWrites`, `CommitPostsBatch`). That the
horizon is never left is `DueIndexIsBelowBound`.

`ShiftAssumption` is the interface to `Calendar`. TLC evaluates it in each run for the
instance `MCShift`, which is `Calendar!ShiftDate`. In general it is what `OccurrencesGrow` of
`ArithmeticProofs` proves: from any `starts_on`, for any period and `repeat_every`, occurrences
are days, each later than the ones before, the first being `starts_on`. `Ordinal` orders dates as
year, month and day do (`OrdinalOrder`, from what a year and a month add to it), and more months
later is a later month, whatever is clamped; for days and weeks the ordinals are the multiples.

## 4. Photo-capture drafts

### State and actions

| Model | Code |
|---|---|
| `status`, `createdOn`, `extraction`, `photo` | `ocr_status`, the day of `created_at`, the row of `transaction_ocr_extraction`, `photo_uploaded_at`; an absent row is `unused`, `discarded` (by a request) or `swept` |
| `lock` | the row lock, kept across steps by the worker only |
| `objects`, `events`, `deliveries` | receipts in S3, events under way, events sent |
| `request` | a draft-from-photo request between its count and its insert |
| `step`, `draft` | a worker, and the record it works on |
| `sweep`, `stale` | the sweep, and the rows its scan found |
| `cleanup` | deletes that still owe S3 a delete |
| `page`, `seen` | the browser page of a draft, and what its poll has read: a status, or that the row is not among the visible transactions (`missed`) |
| `sent` | a confirmation under way, `awaited` by the page that sent it or `orphaned` by a reload |
| `CountDrafts`, `InsertDraft`, `AbortCreate` | `create_photo_draft` |
| `PollVisible`, `PollDraft`, `PollExtraction` | the three statements of the status request: the visible transactions, the drafts, the extraction; `applyResult` on the page |
| `SubmitConfirm`, `Confirm`, `RefuseConfirm` | the confirmation is sent, commits, or is answered with an error |
| `Upload`, `LeaveCapture`, `PollTimeout`, `SwitchToManual`, `ReloadConfirm` | the two pages |
| `DeleteTransaction`, `DeleteReceipt`, `ReplacePhoto`, `ConfirmPhotoUpload` | the other requests |
| `Redeliver`, `Receive`, `LockDraft`, `MissDraft`, `WriteBack`, `CrashWorker` | S3 and the worker |
| `StartSweep`, `SweepDelete`, `SweepReceipt`, `CrashSweep` | Pass C |

Choices made:

- A statement that writes a row waits while the worker holds it. `Confirm`,
  `DeleteTransaction` and `SweepDelete` are one step at their COMMIT: they hold their lock only until
  then, during which writers wait and readers see the old state, so nothing can tell.
- The clock counts days. A draft is stale when `createdOn + TTL < today`; the hours of the
  boundary day are left out. A creating request lasts less than a day and crosses at most one
  midnight (guard of `Tick`).
- Looking for a draft takes two statements (`_get_transaction_or_draft`): each sees what is
  committed when it runs. In front of a `Confirm` or a `DeleteTransaction` they only add ways to
  be refused, so there they are part of the write.
- A request answered 404, 409 or 429 without a change is no step, but for a refused confirmation,
  which ends.
- A draft is open in one page, with one confirmation under way. What a page that was reloaded has
  asked for goes on and is not heard of.
- Textract answers or fails; its answer needs the receipt to be there. Asking S3 for the
  content type may fail and then leaves `photo_uploaded_at` alone.
- A crashed worker rolls back and is not retried (`ocr.tf:191-194`), but S3 may have sent the
  event twice. The photo of a confirmed transaction may be replaced, which sends more events.
- A reload of the capture page loses the draft: it is on no list. A reload of the confirm page
  fetches the draft again.
- One workspace: the limit is per workspace and nothing else is shared.

### Runs

| Configuration | Checks | Instance |
|---|---|---|
| `OcrDrafts` | `TypeOK`, `StatusMatchesExtraction`, `ConfirmedIsFinal`, `ExtractionIsFinal`, `PollShowsExtraction`; `DraftsDoNotLinger` under `FairSpec` | 1 draft, 1 creating request, 2 workers, 3 days, TTL 1, 2 events, 1 crash; 78 745 states |
| `OcrDraftsLimit` | `OvershootBounded` | 3 drafts, 2 requests, 2 days, limit 1; 255 982 states |
| `OcrSweptReceipt` | `PhotoIsThere`: violated | 1 draft |

Bounds, and why they are enough. Drafts meet only in the daily count and in the list of one
sweep; both are covered by `OcrDraftsLimit` and by the proofs, so the other runs use one
draft (two drafts and one worker, 1.7 million states, showed nothing else). Two workers
and two events are one doubled event, with the second arriving while, before or after the
first is worked on. With a TTL of 1 and three days a draft of the first day is swept on the
last. Two requests that counted together at a limit of 1 insert two rows; the third draft is
there so that a wrong count could insert it.

Fairness is that of the machinery alone, and weak: days pass; a request that has counted inserts
or gives up; an invocation of the worker that has begun ends or is cut off; the sweep, once
something is due for it, gets on. Nothing is asked of users and open pages: nobody need confirm,
poll, delete or close a form. Nothing is assumed of new requests, events or crashes. So
`DraftsDoNotLinger` is about the draft nobody cares for: it is swept, also when its worker died and
when a sweep did. The clock stops at `LastDay`; a draft that is due for the sweep stays due, so the
sweeps of that day stand for those of all later ones, and the property is about drafts that are
due by then.

`PollShowsExtraction` names its exceptions. A poll that ends in the empty form though there was no
failed extraction has met a row that was deleted, or one that was confirmed after the first of its
two lookups had missed it.

### What the violated run shows, and four observations

- `PhotoIsThere`. The DELETE of the sweep tests `ocr_status` again, so a draft confirmed
  after the scan keeps its row (`ConfirmedIsFinal`); the loop after it deletes the receipt of
  every row of the scan, that one's included. The transaction keeps `photo_uploaded_at` and
  its photo is gone.
- A draft is not among the visible transactions and a confirmed
  transaction is not among the drafts. The status request asks for the one and then for the other,
  so a confirmation that commits in between leaves it with neither: it answers 404 for a
  transaction that "must still answer" (`transactions/service.py:399-400`). It takes a
  confirm page that is reloaded while its confirmation is on the way, and it shows the empty form:
  the second exception of `PollShowsExtraction`, without which TLC finds it violated.
- The same two lookups precede a confirmation: a second one that overlaps the first can get 404
  where the docstring of `confirm_from_photo` (`transactions/service.py:440-443`) has "a clean 409
  rather than a 404". Either way it is refused and changes nothing.
- Two creating requests at one below the limit count the same rows and both insert, though the
  docstring (`transactions/service.py:328-331`) says the count and the insert are atomic.
  `OvershootBounded` gives what does hold: the overrun is smaller than the number of
  concurrent requests.
- After a worker died the draft stays `pending_ocr`; `confirm_from_photo` accepts only
  `extracted` and `extraction_failed`, so each submission of the manual form is refused until
  the sweep takes the draft after its TTL (`DraftsDoNotLinger`).

### Proofs

`OcrDraftsProofs` proves, for any number of drafts, workers, requests, events and crashes:
`DraftInvariant`, `DraftTypeCorrect`, `StatusAndExtractionAgree`, `ConfirmedStays`,
`ExtractionStays`, `PollIsFaithful` and `OvershootIsBounded`, from `OcrConstants`.

`DraftInv` is `TypeOK` and `StatusMatchesExtraction`, which are inductive together because
each action writes both columns or neither, plus `SeenIsBacked`: what a poll has read of the
status is still backed by the extraction when it reads that, unless the row is gone. That
needs an unused draft to have no page, poll or confirmation. `PollIsFaithful` is about the poll
statement by statement, with the exceptions of `PollShowsExtraction` and no others. The action properties follow step by step
from it. `OvershootBounded` is not inductive: `BookingInv` counts for each day the rows of
that day and the requests that have counted on it and not yet inserted; the count rises only in
`CountDrafts`, which found fewer rows than the limit and is itself one of at most
`Cardinality(Requests)`.

## 5. Workspaces, members and invites

### State and actions

| Model | Code |
|---|---|
| `home`, `role` | the one row of `workspace_member` a user can have (`uq_workspace_member_user_id`), and its role |
| `workspace`, `accounts` | rows of `workspace`; which of them have an account |
| `inviteTo`, `marks` | rows of `workspace_invite`: its workspace, `accepted_at`, and `withdrawn` for `revoked_at` or a passed `expires_at` |
| `request` | a request: how far it is, its user, the workspace of its scope, its target |
| `since`, `uses`, `raced` | history: what a deleting request has not counted, acceptances per invite, workspaces with a transfer that did not run alone |
| `Start...` | the gates `require_membership` and `require_owner`, and the checks before the first query |
| `CheckInvite`, `CountMembers`, `CountAccounts` | the three reads of `accept_invite` |
| `ReadRole`, `CountOthers` | the two reads of `leave_workspace` |
| `CheckTarget` | the read of `transfer_ownership` |
| `Found`, `OpenAccount`, `GenerateInvite`, `RevokeInvite`, `AcceptInvite`, `TransferOwnership`, `RemoveMember`, `LeaveAsMember`, `LeaveAsSoleOwner` | the writes and the COMMIT of each handler |
| `Fail` | any refusal, constraint violation, deadlock or lost connection: a rollback |
| `Expire` | the clock passes `expires_at` |

Choices made:

- A read is a step of its own, since nothing a SELECT has seen is locked. The writes of a
  request are one step at its COMMIT: they come after its reads, hold their row locks until
  then, and a statement that has waited for a lock evaluates its WHERE on the new row. So the
  guards and the row filters of a write are those of its statements, and nothing more.
- `require_owner` reads the caller's row again. Its answer decides, and at that moment
  `require_membership` would have found the same row, so the two are one step.
- The insert of an invite or an account, and the audit row of a transfer, refer to the
  workspace by foreign key: they need `w \in There`. Deleting a workspace cascades to its members,
  invites and accounts, and the history of these invites is dropped with their rows.
- Every user and workspace is active. Deactivation refuses requests at the gate; that of users
  is in `AuthSessions`.
- An owner alone in an empty workspace may accept an invite to it: the code inserts the
  new membership and then deletes the workspace under it. `AcceptInvite` does the same.

### Runs

| Configuration | Checks | Instance |
|---|---|---|
| `MembershipSafety` | `TypeOK`, `OneOwner`, `InviteUses`, `NobodyIsThrownOut`, `AcceptKeepsAccounts` | 2 users, 3 workspaces, 2 invites, 2 requests; 1 478 350 states, about 100 s |
| `MembershipOwners` | `SingleOwner`: violated | 3 users, 3 workspaces, 1 invite, 2 requests |

Bounds, and why they are enough. Each hazard is between two requests, so two overlap, each of
any kind and any number one after another. Two invites matter: with one there is none left
once it has brought a second member, and an acceptance by somebody with co-members would never
reach its count. The third workspace lets a user who has left found another one. No property
needs a third user to fail: a pair is an owner and a member, two owners, an inviter and a
joiner, or a leaver and who stays. The same run with a third user (5 041 180 states) finds no
violation either and takes too long to keep, and the proofs are for any number.
`SYMMETRY` permutes all four sets. Deadlock is checked: a request can always fail.
No fairness is assumed: all properties are safety.

### What the violated run shows

`SingleOwner` is what `remove_member` argues from ("the caller is always the sole owner ...
single-owner invariant, O4", `workspace/service.py:358-361`). The owner begins to transfer
the workspace to a member, who is found to be one; the owner's removal of that member commits;
then the demotion matches the owner's row, the promotion matches none, and neither row count
is looked at. The workspace has no owner, and nobody can pass `require_owner` again. Two
overlapping transfers to different members leave two owners in the same way. `OneOwner` is
what does hold: exactly one owner as long as no transfer overlaps with another change of roles
or departure in that workspace.

### Proofs

`MembershipProofs` proves, for any number of users, workspaces, invites and overlapping
requests, from `MembershipConstants`: `MembershipTypeCorrect`, `OwnershipHolds`,
`InviteUsesAreBounded`, `EvictionsAreExplained` and `AcceptedAccountsSurvive`.

`OneOwner` is not inductive: a request writes on the strength of what it read steps ago.
`OwnershipInv` adds, for workspaces that are `Steady` (there, and not raced), what each
request relies on (`Relies`: whoever transfers or removes is still the owner, the target of a
checked transfer is still a member, a leaver that read "member" does not own it) and that a
transfer has the workspace to itself (`TransferAlone`). `OwnersKept` covers the
steps that change no owner; the others are shown one by one. `InviteUses` needs `UsesInv`: the
acceptances committed and the requests that have passed the check (`Passed`) are together
no more than the requests there are. The two action properties follow from `CountInv`: as long
as `since` says that nobody joined, a workspace whose members were counted still has only the
members counted, and likewise for accounts (`Counted`).

## 6. Reminders

### State and actions

| Model | Code |
|---|---|
| `rows` | the columns of `recurring_transaction` that reminders look at: `next_date`, `reminder_days_before`, `ends_on`, `last_reminded_for_date` |
| `members` | recurrences for which `scope_for_recurrence` succeeds and the account is visible |
| `run` | an invocation: its pass, the day it read once, the ids left of its scan, the row it has locked |
| `sent`, `unmarked` | history: mails SES accepted for a due date, and those whose mark was never committed |
| `excused` | history: recurrences an invocation need not answer for: SES refused it the mail, it found the row locked, or the row or its creator changed since its scan |
| `StartRun`, `Generate`, `ScanReminders` | `handler` reads the clock; Pass A, reduced to where it leaves `next_date`; the scan of Pass B |
| `LockRow`, `SkipRow`, `SkipLocked` | `FOR UPDATE SKIP LOCKED` and every predicate again under the lock; a row that another invocation or a request has locked |
| `SendAccepted`, `SendUnanswered`, `SendFails` | the SES call: accepted, accepted without an answer (the client sends again or gives up), refused |
| `MarkReminded`, `Crash`, `EndRun` | the COMMIT of the mark; a timeout or a COMMIT that fails; the end |
| `PatchRecurring`, `DeleteRecurring`, `ChangeMembership`, `Tick` | requests, departures, midnight |

Choices made: an invocation has five minutes, so it sees one midnight at most (guard of
`Tick`). Pass A may leave `next_date` at any date once it was due (`RecurringGeneration` says
which), and where it was if the row is paused, ended or in error. `Init` has every row a
creation can make: a `reminder_days_before` of 0 is accepted and its window never opens.

### Run

`RecurringReminders`: `TypeOK`, `SentOnce`, `MarkedWasSent`, `SentInTime`, `PassIsComplete`, and
`RunsEnd` under `FairSpec`; 1 recurrence, 2 invocations, 2 days, dates 0 to 2, windows of
0, 1 and 2 days, 1 fault; 125 380 states, about 60 s. Recurrences share nothing but the scan, so one is
enough; two invocations overlap; a window of two days spans both dates of the clock, so a mail
can be sent too early, again on the next day, and past midnight. With one fault the second
mail can happen and a third would be seen.

Whether a reminder goes out in the end is not up to the code alone. The scheduler runs once a day,
a window of `reminder_days_before` days has that many runs, each asks SES once, and each may find
the row locked. So nothing is said of "in the end": `PassIsComplete` says of each invocation
that at the end of its list it leaves no reminder behind that is due by then, whether its window
opened today or an earlier day missed it, but the excused ones. With `RunsEnd`, an invocation that
is not cut off gets there.

Fairness: weak, for the steps of an invocation that has begun (Lambda gives it time or cuts it off).
Nothing is assumed of the schedule, SES, requests, the clock or faults.

Where documents and code differ: an error of SES is caught and the docstring has "a later run
retries" (`generation.py:343-344`). The invocation succeeds, so EventBridge does not repeat it, and
the next one comes a day later. With one day ahead that is the due day, which the window leaves
out: the reminder is lost. That is why a refused reminder is `excused`.

### Proofs

`RecurringRemindersProofs` proves `RemindersTypeCorrect`, `RemindedOnce`, `MarkIsHonest`,
`RemindedInTime` and `PassLeavesNothing` (the invariant `PassIsComplete`) for any recurrences, invocations, dates and number of faults, from
`ReminderConstants`. `SentOnce` is not inductive: that nothing is sent twice depends on what the
mark says when the row is locked. `ReminderInv` adds `RunInv` (the locked row is in its window
by the invocation's day, unmarked, and no other's; at "mark" its mail is out) and `Settled`:
a mail that went out and was not lost is marked, about to be marked (`Pending`), or its day is
over, or it is today and the schedule has moved on. The last case is why a mark that PATCHes and
Pass A leave behind never lets an old date be mailed again. `PassIsComplete` needs `PassInv`, which
says the same of an invocation anywhere in its list, of what is off the list already; the row it
holds stays on the list until it lets it go.

## 7. Sessions and administrators

### State and actions

| Model | Code |
|---|---|
| `owner`, `family`, `live`, `expired` | rows of `auth_session`: `user_id`, `family_id`, `revoked_at`, `expires_at` |
| `deactivated`, `admins` | `app_user.deactivated_at`, rows of `platform_admin` |
| `jar`, `Cookie` | the refresh cookie of each browser, and its path |
| `request` | a request: its place, what it read, the rows its UPDATE chose, the token its answer carries |
| `disturbed` | history: browsers that sent two requests at once, lost a rotated token or whose user was deactivated |
| `StartLogin`, `StartRefresh`, `StartLogout`, `StartDeactivate` | the routes, with the row lock of `upsert_user_by_google_sub` and of the deactivation |
| `ReadToken`, `CheckUser`, `CreateSession`, `RotateRefreshToken`, `SelectFamily`, `SelectAllSessions`, `RevokeFamily`, `DeactivateUser` | the statements of `auth/session.py` and `admin/service.py` |
| `Deliver`, `Lose`, `Fail`, `Expire` | the answer and its cookies, its loss, a rollback, the clock |
| `GrantAdmin`, `RevokeAdmin`, `ReactivateUser`, `Bootstrap` | single-row administration |

Choices made: an UPDATE of many rows chooses them when it begins and never sees a row inserted
since; that is a step of its own. An access token is signed and not stored, and is left out. Reuse
is looked for before expiry, as in the code: a revoked row counts as replayed even when it has expired.

### Runs

| Configuration | Checks | Instance |
|---|---|---|
| `AuthSessionsSafety` | `TypeOK`, `CalmSession`, `DeadFamilyStaysDead`, `DeactivatedGetNoTokens` | 2 users, 3 tokens, 1 browser, 2 requests; 1.4 million states, about 130 s |
| `AuthSessionsLogout` | `LogoutRevokesFamily`: violated | the same |

Two requests overlap; three tokens are a login and two rotations, or two families. A user
to be deactivated and an administrator are two users. Tokens run out, which
stops only what needs a new one. Deadlock is checked. `SYMMETRY` permutes all sets; no property
is about liveness.

`LogoutRevokesFamily` is what the routes, the backend's README and a test say of
`POST /api/auth/logout`. It is asked of calm browsers only: one that sends nothing else while the
logout is under way, so that its cookie is the one it began with, which by `CalmSession` was the live
token of its family. In the run it has just signed in. With a cookie of the path `/api/auth`
the property holds (2.3 million states). The refresh cookie has the path `/api/auth/refresh`, so the browser
does not send it to the logout route; the handler finds no token and only clears cookies. The
family stays alive until it expires.

What two properties do not say: `CalmSession` leaves out browsers whose tabs refresh at the same
time, which the code does take for a replay. `DeactivatedGetNoTokens` leaves out a refresh that
had found the user active before the deactivation and inserts its token after it; that
token is refused at the next refresh, and its access token at each request on a workspace.

### Proofs

`AuthSessionsProofs` proves `SessionsTypeCorrect`, `DeadStaysDead`, `NoTokensForDeactivated`
for any users, tokens, browsers and overlapping requests, from `AuthConstants`. `SessionInv` adds to the types what each
request carries (`StateOK`: its token was issued, its user is the owner of that token, a login past
its check has an active user) and `Exclusive`: two requests that hold the row lock of a user are
one, without which a login could issue a token to a user deactivated after its check.

It also proves `UndisturbedStaySignedIn`, the invariant `CalmSession`. `CalmInv` says
what holds while requests are under way: a token is in the hands of one browser's cookie, requests
and answers, and so is its family (`Separate`); what a login is about to give is alone in its
family (`FreshLogin`); the rows an UPDATE has chosen are those of the family or the user it was
for (`CarriesOK`); and an undisturbed browser has one request at most, which sends the token of the
cookie, and that token or the one on its way back is the live one of its family (`Calm`). Without
`Separate` the replay of one browser could revoke the family of another; without `FreshLogin` a
browser that signs in again would not become undisturbed.

## 8. Amounts, splits and receipts

### State and actions

| Model | Code |
|---|---|
| `entries` | rows of `transaction`, `transaction_template` and `recurring_transaction`: the amount; for a transaction whether it is a draft and has `photo_uploaded_at` |
| `lines` | rows of the three split tables |
| `categories` | rows of `category` |
| `request` | a request: its place, the amount and splits it sends, the amount it read, the lines its DELETE took |
| `tickets`, `objects` | presigned uploads that are still valid, receipts in S3 |
| `disturbed` | history: entries whose last write was not calm |
| `Check`, `DeleteLines`, `LockLines`, `Write`, `Fail` | a PATCH: read and validate; DELETE of the old lines as of its start, which waits for those that another request has deleted; INSERT, UPDATE and COMMIT; a constraint that refuses them |
| `LockRow`, `Remove`, `DeleteObject` | a DELETE, with its cascade, and the receipt after the COMMIT |
| `CreateTransaction`, `ConfirmFromPhoto`, `UpdateTransaction`, ... | the handlers, table by table |
| `ApplyTemplate`, `CommitApply`, `PostOccurrence` | a template applied (two reads, then an insert), a recurrence posted with its row locked |
| `RequestUpload`, `Upload`, `ConfirmUpload`, `MarkPhoto` | the receipt |
| `DeleteCategory`, `CutOff`, `BreakDeadlock` | RESTRICT, a function cut off, the database ending one of two requests that wait for each other |

Choices made: money is counted in half cents, so a request can send what a numeric(18,2)
column cannot hold, and `Stored` is what the column makes of it. Each request is made once; the
tables start in any state that past writes can have left, of one row at most, so that a request
meets balanced and unbalanced entries without a history that makes them. `apply_template` and
generation validate in `create_transaction` what they copy: an unbalanced source posts nothing.

### Runs

| Configuration | Checks | Instance |
|---|---|---|
| `CategorySplits` | `TypeOK`, `CalmEntriesBalanced`, `ReceiptIsThere` | 2 transactions, 1 template, 1 recurrence, 2 categories, 2 requests, amounts of 1, 2 and 4 half cents; 1 246 933 states, about 50 s |
| `CategorySplitsSum` | `SplitsSumToAmount`, from balanced tables: violated | 1 request |

Every hazard is between two requests or within one, hence two. Amounts are half a cent, one and
two cents: two equal lines can sum to a bigger amount, and half a cent twice is one cent sent
and two stored. The second transaction is what applying and posting create. Deadlock is not checked, since
a state in which every one-shot request is done may have no successor.

`SplitsSumToAmount`: a PATCH that names an amount and splits validates the splits against the
old amount and then sets the new one. Splits that sum to the old amount are accepted and left beside
the new one; splits that sum to the new amount get 422. `CalmEntriesBalanced` says what does hold: a
write that overlaps no other, sends whole cents and does not move the amount under the splits it
sends leaves an entry in balance, one that was out of balance included.

### Proofs

`CategorySplitsProofs` proves `SplitsTypeCorrect`, which contains that no line outlives its entry or
its category, and `MarkedReceiptsExist`, the invariant `ReceiptIsThere`, for any tables, amounts
and requests, from `SplitsConstants` and `RowsAreThere`. `SplitsInv` adds to them what a request
under way relies on: while one is about to mark a transaction, its object is there unless the row is
gone; one that is about to delete an object has deleted its row; a template being applied
was read with an amount. Every step keeps rows that are gone gone (`Respects`), since an id is
never given twice.

`CalmEntriesStayBalanced` proves `CalmEntriesBalanced`, for any categories, amounts and requests.
`BalanceInv` adds what each PATCH under way relies on (`PatchOK`): the splits it sends sum to the
amount it read; as long as no write overlaps it, that is the entry's amount, the lines it has
deleted are all there were, and if it sends no splits the lines there are sum to the amount it is
about to write. It needs that an entry has one line for a category (`OneLineEach`) and a draft has
none (`DraftsBare`).

`ArithmeticProofs` has the laws of sums. `SumFunctionOnSet` folds over a set in an order of its own,
so that any element may be taken first (`SumTake`), that disjoint sets add up (`SumUnion`), that a
sum may be taken over other indices (`SumReindexed`) or by groups (`SumOfGroups`) is proved by
the least counterexample: a set of finite sets has a member without a proper subset in it (`LeastSet`,
from `WFMin` of the library). That the fold has a value at all is the same argument (`TableExists`).

## 9. Accounts, categories, budgets, transfers and reports

### State and actions

`Reports` holds what is computed and never stored, as operators on a book of four tables:
`CategoryTotals` and `RollUp`, `TrendTotals`, `BucketBounds` and `DenseSeries`, `BudgetSpent`, and
`Derived` for transfers. `Bookkeeping` has the tables and the requests on them:

| Model | Code |
|---|---|
| `accounts`, `categories`, `transactions`, `budgets`, `transfers` | the tables; `Fresh` before a row's insert, `Gone` after its deletion; a category is its parent |
| `request` | what each request has checked, and whether its ground was written since (`late`, history) |
| `treeRaced`, `raced` | history: the exceptions of two properties |
| `VetCategory`, `LookForChildren`, `WriteCategory`, `DeleteCategory` | `categories/service.py`: the reads, the last read of a PATCH, the write, RESTRICT |
| `CreateAccount`, `UpdateAccount` | `accounts/service.py`, which looks at no other table |
| `CheckBudget`, `WriteBudget`, `DeleteBudget` | `budgets/service.py`; an UPDATE writes only the columns the request changed |
| `QuoteTransfer`, `CreateTransfer`, `DeleteTransfer` | the two accounts read one after the other, `_derive_to_amount`, the CHECKs |
| `PostTransaction` | `create_transaction`, in one step: `CategorySplits` has its statements |

### Run

`Bookkeeping`: `TypeOK`, `CalmTwoLevels`, `BudgetCurrencyHolds`, `ReportsAgree`,
`TransferConversion`; 1 user who owns one of 2 accounts, 2 of 3 categories nested or not, 2
transactions of 4 bills, 1 budget, 1 transfer, 2 requests; 126 491 states, about 60 s.
`MCInit` takes a part of the states of `Init`. The bills stand around New Year 2024, when
week, month and year turn on a Sunday and the next day: a purchase split over a parent and its
child, a refund, an income, and a refund on the last day of the month of the budgets. Rates of 2 and 3 make the
derived amount inexact. Deadlock is not checked, for the same reason as in section 8.

`ReportsAgree` is checked in each reachable state with two levels: breakdown, its rolled-up top
level and the trend by day, week, month and year sum to the same, and a budget has spent what the
breakdown of its month, account and currency says of its category. Each query has its own CASE for
what a line counts for (`BreakdownAmount`, `TrendAmount`, `BudgetAmount`), and the budget its own
condition on the account, as the code has them: `PROJECT.json` has a mutant that swaps the
order of one.

### What the properties leave out, and what differs from the documents

- A third level of categories comes of two crossed requests; the reports then raise an uncaught
  error. `CalmTwoLevels` excepts it by `treeRaced`, which only a write overtaken by another sets.
- `update_account` changes the currency under pinned budgets, and two PATCHes of one budget can
  each be right about the column the other is changing; `raced` excepts both.
- `trend_totals` with a `category_id` selects transactions that have a line of that category and
  then sums all their lines, while its docstring says it mirrors the breakdown's join; the
  breakdown has no such filter, and `ReportsAgree` is stated without it.
- A refund is subtracted whatever type is asked for, so a refunded expense lowers income as well.
- Budgets do not roll children up.

### Proofs

`BookkeepingProofs` proves `BookkeepingTypeCorrect`, `TwoLevels`, `PinnedCurrency`,
`FairConversion` and `OneStory`, from `BookkeepingConstants` (finite tables of categories and
transactions, bills and queries with dates of the calendar, whole amounts) and `RowsAreThere` (the two
marks for absent rows are no rows themselves), for any users, tables, bills, rates and
overlapping requests.
`CalmTwoLevels` needs `TreeInv`: what a request not overtaken has checked still holds
(`GroundedAt`), and parents are there. `BudgetCurrencyHolds` needs `BudgetInv`: a write that is
not late makes a row whose account and currency are the ones checked, or the ones it found
(`SettledAt`). `TransferConversion` follows from `RoundedConversion`, an inequality about one
rounded division, for all rates.

`OneStory` proves `ReportsAgree`. Besides `TreeInv` it needs `RefsInv`: the category of a line and of
a budget is there, or the breakdown, which has a row for each category there is, would lose it. Then
each report sums the same pairs of a transaction and a category (`SeenLines`), in other groups: the
breakdown by category (`BreakdownTotal`), its top level by the parent (`RolledUpTotal`), the trend by
transaction and then by the start of its bucket (`TrendTotal`). For the trend each bucket with
an amount has to be met, once, by the walk of `DenseSeries`:

- `BucketOf`: the bucket of a day holds the day, is the bucket of every day it holds, and begins
  where `date_trunc` says, for all dates and the four buckets (`PlusDaysAdds` is the step over the
  end of a month or a year);
- `NextBucketBegins`: the day after a bucket begins the next, and none begins in between;
- `WalkIsClosed`, `SeriesSpans`: the walk therefore gives one entry for each day that begins a
  bucket up to the last day, by the latest day on which it would give something else; and such a
  walk exists (`WalkExists`), without which the recursive definition would mean nothing.

Two results on the way stand for themselves: `TruncatedToBucket` (the database and the service agree
on where a bucket begins) and `EachDayOnce` (the series is dense: each day of the query is in one
bucket and no other).

## 10. What rests on TLC alone, and what is left out

- Liveness (`CatchesUp`, `RunsTerminate`, `DraftsDoNotLinger`, `RunsEnd`) is
  model-checked: the proof system handles neither fairness nor ENABLED.
- Every other property of the passing runs, invariant, action property or refinement, is also
  a theorem, for all values of the constants.
- `ShiftAssumption` bounds the horizon as well (`MaxIndex` lies beyond the last day), which is a
  choice of the instance and stays an assumption.
- The four violated properties (`PhotoIsThere`, `SingleOwner`, `LogoutRevokesFamily`,
  `SplitsSumToAmount`) are statements of the repository's own documents that the code does not keep;
  each has a finding in `PROJECT.json`.
- Not modelled: response parsing, token cryptography, the OAuth exchange, presigned URLs,
  wording of mails, rendering, routing and infrastructure, for want of state of their own; the audit
  log, one insert in the caller's transaction; `default_currency`, `compute_summary` and
  `classify_status`, stateless comparisons; the rename of a workspace, the archiving of an account and
  other columns nothing decides on. Dates beyond year 9999 and times of day within the boundary
  day of the TTL are left out of the models named above.
