------------------------------ MODULE OcrDrafts ------------------------------
(***************************************************************************)
(* The life of a photo-capture draft, from the request that creates it to  *)
(* its confirmation or removal: the HTTP handlers of                       *)
(* backend/app/transactions, the S3-triggered worker of                    *)
(* backend/app/ocr/extraction.py, Pass C of the scheduler                  *)
(* (backend/app/ocr/cleanup.py), and the two pages of the browser that     *)
(* wait for the extraction and send the confirmation.                      *)
(*                                                                         *)
(* A statement that writes a transaction row waits for the row lock; only  *)
(* the worker keeps that lock across steps (it calls Textract under it).   *)
(* The other transactions write one row in one statement and are one step, *)
(* placed at their COMMIT.  The receipt object is in S3, outside every     *)
(* transaction.                                                            *)
(***************************************************************************)
EXTENDS Naturals, FiniteSets

CONSTANTS
    Drafts,         \* transaction ids (one uuid each, never used twice)
    Requests,       \* draft-from-photo requests of one workspace that may overlap
    Workers,        \* invocations of the OCR worker that may overlap
    LastDay,        \* bound on the clock, in days
    DailyLimit,     \* ocr_daily_draft_limit
    TTL,            \* ocr_draft_ttl_days
    MaxDeliveries,  \* bound on the S3 events of one upload (at least once)
    MaxCrashes,     \* bound on workers and sweeps that die
    Free            \* the row lock is free

ASSUME OcrConstants ==
    /\ LastDay \in Nat /\ TTL \in Nat /\ MaxCrashes \in Nat
    /\ DailyLimit \in Nat \ {0} /\ MaxDeliveries \in Nat \ {0}
    /\ Free \notin Workers
    /\ Drafts # {} /\ IsFiniteSet(Drafts) /\ IsFiniteSet(Requests)

Days == 0..LastDay
InProgress == {"pending_ocr", "extracted", "extraction_failed"}
OcrStatus == InProgress \cup {"confirmed"}

\* A transaction row is absent when its id is unused, when a request deleted it,
\* and when the sweep did.
Absent == {"unused", "discarded", "swept"}

VARIABLES
    today,
    status,      \* transaction.ocr_status, or why there is no row
    createdOn,   \* the day of transaction.created_at
    extraction,  \* transaction_ocr_extraction.status, "none" without a row
    photo,       \* photo_uploaded_at IS NOT NULL
    lock,        \* the row lock of each transaction
    objects,     \* the receipts in S3
    request,     \* each creating request: the day it counted on, or idle
    events,      \* S3 events under way, per receipt
    deliveries,  \* S3 events sent so far, per receipt
    step, draft, \* each worker: where it is, the record it works on
    sweep, stale,\* the sweep: where it is, the rows of its scan
    cleanup,     \* rows deleted by a request that has not yet deleted the receipt
    crashes,
    page, seen,  \* the browser, per draft: what it shows, what its poll has read
    sent         \* the confirmation under way, and whether a page awaits its answer

Idle == LastDay + 1

rows == <<status, createdOn, extraction, photo, lock>>
workerVars == <<events, deliveries, step, draft>>
sweepVars == <<sweep, stale>>
browser == <<page, seen, sent>>
vars == <<today, rows, objects, request, workerVars, sweepVars, cleanup, crashes, browser>>

TypeOK ==
    /\ today \in Days
    /\ status \in [Drafts -> OcrStatus \cup Absent]
    /\ createdOn \in [Drafts -> Days]
    /\ extraction \in [Drafts -> {"none", "succeeded", "failed"}]
    /\ photo \in [Drafts -> BOOLEAN]
    /\ lock \in [Drafts -> Workers \cup {Free}]
    /\ objects \subseteq Drafts /\ cleanup \subseteq Drafts /\ stale \subseteq Drafts
    /\ request \in [Requests -> Days \cup {Idle}]
    /\ events \in [Drafts -> 0..MaxDeliveries]
    /\ deliveries \in [Drafts -> 0..MaxDeliveries]
    /\ step \in [Workers -> {"idle", "look", "look_again", "extract"}]
    /\ draft \in [Workers -> Drafts]
    /\ sweep \in {"idle", "scanned", "deleted"}
    /\ crashes \in 0..MaxCrashes
    /\ page \in [Drafts -> {"none", "uploading", "polling", "loading", "processing",
                            "review", "manual", "done", "left"}]
    /\ seen \in [Drafts -> OcrStatus \cup {"nothing", "missed"}]
    /\ sent \in [Drafts -> {"none", "awaited", "orphaned"}]

NoDraft == CHOOSE d \in Drafts : TRUE

Init ==
    /\ today = 0
    /\ status = [d \in Drafts |-> "unused"]
    /\ createdOn = [d \in Drafts |-> 0]
    /\ extraction = [d \in Drafts |-> "none"]
    /\ photo = [d \in Drafts |-> FALSE]
    /\ lock = [d \in Drafts |-> Free]
    /\ objects = {} /\ cleanup = {} /\ stale = {}
    /\ request = [q \in Requests |-> Idle]
    /\ events = [d \in Drafts |-> 0] /\ deliveries = [d \in Drafts |-> 0]
    /\ step = [w \in Workers |-> "idle"] /\ draft = [w \in Workers |-> NoDraft]
    /\ sweep = "idle" /\ crashes = 0
    /\ page = [d \in Drafts |-> "none"] /\ seen = [d \in Drafts |-> "nothing"]
    /\ sent = [d \in Drafts |-> "none"]

\* There is a row.
Present(d) == status[d] \in OcrStatus

\* The row goes, by request or by sweep, and its extraction with it (ON DELETE CASCADE).
Remove(D, how) ==
    /\ status' = [d \in Drafts |-> IF d \in D THEN how ELSE status[d]]
    /\ extraction' = [d \in Drafts |-> IF d \in D THEN "none" ELSE extraction[d]]
    /\ photo' = [d \in Drafts |-> photo[d] /\ d \notin D]
    /\ UNCHANGED <<createdOn, lock>>

\* A request is over before a whole day has passed: it may only cross one midnight.
Tick ==
    /\ today < LastDay
    /\ \A q \in Requests : request[q] \in {Idle, today}
    /\ today' = today + 1
    /\ UNCHANGED <<rows, objects, request, workerVars, sweepVars, cleanup, crashes, browser>>

-----------------------------------------------------------------------------
(***************************************************************************)
(* POST draft-from-photo: the count of the day's rows and the insert are   *)
(* two statements of one READ COMMITTED transaction.                       *)
(***************************************************************************)

CreatedOn(day) == {d \in Drafts : Present(d) /\ createdOn[d] = day}

\* Variant: the comparison is off by one.
UnderLimitOrAt == Cardinality(CreatedOn(today)) <= DailyLimit
UnderLimit == Cardinality(CreatedOn(today)) < DailyLimit

CountDrafts(q) ==
    /\ request[q] = Idle
    /\ UnderLimit
    /\ request' = [request EXCEPT ![q] = today]
    /\ UNCHANGED <<today, rows, objects, workerVars, sweepVars, cleanup, crashes, browser>>

InsertDraft(q, d) ==
    /\ request[q] # Idle
    /\ status[d] = "unused"
    /\ status' = [status EXCEPT ![d] = "pending_ocr"]
    /\ createdOn' = [createdOn EXCEPT ![d] = request[q]]
    /\ request' = [request EXCEPT ![q] = Idle]
    /\ page' = [page EXCEPT ![d] = "uploading"]
    /\ UNCHANGED <<today, extraction, photo, lock, objects, workerVars, sweepVars,
                   cleanup, crashes, seen, sent>>

AbortCreate(q) ==
    /\ request[q] # Idle
    /\ request' = [request EXCEPT ![q] = Idle]
    /\ UNCHANGED <<today, rows, objects, workerVars, sweepVars, cleanup, crashes, browser>>

-----------------------------------------------------------------------------
(* The browser: capture page, then confirm page. *)

\* The presigned POST puts the object in S3, which announces it; the browser polls
\* if it gets the answer.  The row may be gone by then.
Upload(d) ==
    /\ page[d] = "uploading"
    /\ objects' = objects \cup {d}
    /\ events' = [events EXCEPT ![d] = 1]
    /\ deliveries' = [deliveries EXCEPT ![d] = 1]
    /\ page' = [page EXCEPT ![d] = "polling"]
    /\ UNCHANGED <<today, rows, request, step, draft, sweepVars, cleanup, crashes, seen, sent>>

\* The upload fails, or the capture page is closed: the draft is on no list.
LeaveCapture(d) ==
    /\ page[d] \in {"uploading", "polling"}
    /\ page' = [page EXCEPT ![d] = "left"]
    /\ seen' = [seen EXCEPT ![d] = "nothing"]
    /\ UNCHANGED <<today, rows, objects, request, workerVars, sweepVars, cleanup, crashes, sent>>

\* GET .../ocr looks for the row twice: first among the visible transactions, where a
\* draft is not.  The capture page asks again every two seconds and drops a late answer.
PollVisible(d) ==
    /\ page[d] = "polling" \/ (page[d] = "loading" /\ seen[d] = "nothing")
    /\ seen' = [seen EXCEPT ![d] = IF status[d] = "confirmed" THEN "confirmed" ELSE "missed"]
    /\ UNCHANGED <<today, rows, objects, request, workerVars, sweepVars, cleanup, crashes,
                   page, sent>>

\* Then among the drafts, where a confirmed transaction is not: what is in neither
\* answer is a 404, an error on the capture page and the empty form on the confirm page.
PollDraft(d) ==
    /\ page[d] \in {"polling", "loading"} /\ seen[d] = "missed"
    /\ IF status[d] \in InProgress
       THEN seen' = [seen EXCEPT ![d] = status[d]] /\ UNCHANGED page
       ELSE /\ page' = [page EXCEPT ![d] = IF @ = "polling" THEN "left" ELSE "manual"]
            /\ seen' = [seen EXCEPT ![d] = "nothing"]
    /\ UNCHANGED <<today, rows, objects, request, workerVars, sweepVars, cleanup, crashes, sent>>

\* Variant: the page goes to the state named by the answer.
ShownAsIs(p, s, e) == s
\* What the page shows for an answer (applyResult; a pending one is polled again).
Shown(p, s, e) ==
    CASE s = "pending_ocr" -> IF p = "polling" THEN "polling" ELSE "processing"
      [] s = "extraction_failed" \/ (s # "pending_ocr" /\ e = "none") -> "manual"
      [] OTHER -> "review"

\* Last statement: the extraction; then the answer is on the page.
PollExtraction(d) ==
    /\ page[d] \in {"polling", "loading"} /\ seen[d] \in OcrStatus
    /\ page' = [page EXCEPT ![d] = Shown(@, seen[d], extraction[d])]
    /\ seen' = [seen EXCEPT ![d] = "nothing"]
    /\ UNCHANGED <<today, rows, objects, request, workerVars, sweepVars, cleanup, crashes, sent>>

\* 90 seconds have passed: the answer under way is dropped, the user goes on by hand.
PollTimeout(d) ==
    /\ page[d] = "polling"
    /\ page' = [page EXCEPT ![d] = "processing"]
    /\ seen' = [seen EXCEPT ![d] = "nothing"]
    /\ UNCHANGED <<today, rows, objects, request, workerVars, sweepVars, cleanup, crashes, sent>>

SwitchToManual(d) ==
    /\ page[d] \in {"processing", "review"}
    /\ page' = [page EXCEPT ![d] = "manual"]
    /\ UNCHANGED <<today, rows, objects, request, workerVars, sweepVars, cleanup, crashes,
                   seen, sent>>

\* The confirm page is loaded again, without the hand-off of the capture page, and
\* hears no more of what the old page asked.
ReloadConfirm(d) ==
    /\ page[d] \in {"processing", "review", "manual", "loading"}
    /\ page' = [page EXCEPT ![d] = "loading"]
    /\ seen' = [seen EXCEPT ![d] = "nothing"]
    /\ sent' = [sent EXCEPT ![d] = IF @ = "awaited" THEN "orphaned" ELSE @]
    /\ UNCHANGED <<today, rows, objects, request, workerVars, sweepVars, cleanup, crashes>>

SubmitConfirm(d) ==
    /\ page[d] \in {"review", "manual"} /\ sent[d] = "none"
    /\ sent' = [sent EXCEPT ![d] = "awaited"]
    /\ UNCHANGED <<today, rows, objects, request, workerVars, sweepVars, cleanup, crashes,
                   page, seen>>

\* POST confirm-from-photo, at its COMMIT: the conditional UPDATE decides.
Confirm(d) ==
    /\ sent[d] # "none"
    /\ status[d] \in {"extracted", "extraction_failed"} /\ lock[d] = Free
    /\ status' = [status EXCEPT ![d] = "confirmed"]
    /\ page' = [page EXCEPT ![d] = IF sent[d] = "awaited" THEN "done" ELSE @]
    /\ sent' = [sent EXCEPT ![d] = "none"]
    /\ UNCHANGED <<today, createdOn, extraction, photo, lock, objects, request, workerVars,
                   sweepVars, cleanup, crashes, seen>>

\* 404, 409, 422 or an error: nothing is written and the form stays.
RefuseConfirm(d) ==
    /\ sent[d] # "none"
    /\ sent' = [sent EXCEPT ![d] = "none"]
    /\ UNCHANGED <<today, rows, objects, request, workerVars, sweepVars, cleanup, crashes,
                   page, seen>>

\* A confirmed transaction gets another photo: the upload, announced by S3 as the
\* first one was, and then PUT .../photo, which finds the object there.
ReplacePhoto(d) ==
    /\ status[d] = "confirmed" /\ deliveries[d] < MaxDeliveries
    /\ objects' = objects \cup {d}
    /\ events' = [events EXCEPT ![d] = @ + 1]
    /\ deliveries' = [deliveries EXCEPT ![d] = @ + 1]
    /\ UNCHANGED <<today, rows, request, step, draft, sweepVars, cleanup, crashes, browser>>

ConfirmPhotoUpload(d) ==
    /\ status[d] = "confirmed" /\ d \in objects
    /\ photo' = [photo EXCEPT ![d] = TRUE]
    /\ UNCHANGED <<today, status, createdOn, extraction, lock, objects, request, workerVars,
                   sweepVars, cleanup, crashes, browser>>

\* DELETE of a draft or of a confirmed transaction, whatever page is open on it.
DeleteTransaction(d) ==
    /\ Present(d) /\ lock[d] = Free
    /\ Remove({d}, "discarded")
    /\ cleanup' = cleanup \cup {d}
    /\ UNCHANGED <<today, objects, request, workerVars, sweepVars, crashes, browser>>

\* After that commit, the receipt; an error of S3 is logged and the object stays.
DeleteReceipt(d) ==
    /\ d \in cleanup
    /\ objects' \in {objects, objects \ {d}}
    /\ cleanup' = cleanup \ {d}
    /\ UNCHANGED <<today, rows, request, workerVars, sweepVars, crashes, browser>>

-----------------------------------------------------------------------------
(* The OCR worker (extraction.process), one record of one event at a time. *)

\* S3 delivers an event again.
Redeliver(d) ==
    /\ deliveries[d] \in 1..(MaxDeliveries - 1)
    /\ deliveries' = [deliveries EXCEPT ![d] = @ + 1]
    /\ events' = [events EXCEPT ![d] = @ + 1]
    /\ UNCHANGED <<today, rows, objects, request, step, draft, sweepVars, cleanup, crashes, browser>>

Receive(w, d) ==
    /\ step[w] = "idle" /\ events[d] > 0
    /\ events' = [events EXCEPT ![d] = @ - 1]
    /\ step' = [step EXCEPT ![w] = "look"]
    /\ draft' = [draft EXCEPT ![w] = d]
    /\ UNCHANGED <<today, rows, objects, request, deliveries, sweepVars, cleanup, crashes, browser>>

\* Variant: the worker's statements do not look at ocr_status.
PendingOrNot(d) == Present(d)
\* The filter of the worker's SELECT ... FOR UPDATE and of its UPDATE.
Pending(d) == status[d] = "pending_ocr"

LockDraft(w) ==
    /\ step[w] \in {"look", "look_again"}
    /\ lock[draft[w]] = Free /\ Pending(draft[w])
    /\ lock' = [lock EXCEPT ![draft[w]] = w]
    /\ step' = [step EXCEPT ![w] = "extract"]
    /\ UNCHANGED <<today, status, createdOn, extraction, photo, objects, request, events,
                   deliveries, draft, sweepVars, cleanup, crashes, browser>>

\* No pending row: sleep and look once more, then give up.
MissDraft(w) ==
    /\ step[w] \in {"look", "look_again"}
    /\ lock[draft[w]] = Free /\ ~Pending(draft[w])
    /\ step' = [step EXCEPT ![w] = IF @ = "look" THEN "look_again" ELSE "idle"]
    /\ UNCHANGED <<today, rows, objects, request, events, deliveries, draft, sweepVars,
                   cleanup, crashes, browser>>

Release(w) ==
    /\ lock' = [d \in Drafts |-> IF lock[d] = w THEN Free ELSE lock[d]]
    /\ step' = [step EXCEPT ![w] = "idle"]

StatusFor(result) == IF result = "succeeded" THEN "extracted" ELSE "extraction_failed"

\* Variants: the worker commits the extraction, or the status, and dies.
WriteBackHalf(w) ==
    /\ step[w] = "extract"
    /\ extraction' = [extraction EXCEPT ![draft[w]] = "succeeded"]
    /\ Release(w)
    /\ UNCHANGED <<today, status, createdOn, photo, objects, request, events, deliveries, draft,
                   sweepVars, cleanup, crashes, browser>>

WriteBackStatusOnly(w) ==
    /\ step[w] = "extract"
    /\ status' = [status EXCEPT ![draft[w]] = "extracted"]
    /\ Release(w)
    /\ UNCHANGED <<today, extraction, createdOn, photo, objects, request, events, deliveries,
                   draft, sweepVars, cleanup, crashes, browser>>

\* Textract has answered or failed for good: extraction, photo columns and status in
\* one commit; no commit at all if the conditional UPDATE finds the row moved on.
\* Asking S3 for the content type may fail and leaves the photo columns alone.
WriteBack(w) ==
    LET d == draft[w]
    IN  /\ step[w] = "extract"
        /\ \E result \in {"succeeded", "failed"} :
              /\ result = "succeeded" => d \in objects
              /\ IF Pending(d)
                 THEN /\ extraction' = [extraction EXCEPT ![d] = result]
                      /\ \E found \in {FALSE, (d \in objects)} :
                            photo' = [photo EXCEPT ![d] = @ \/ found]
                      /\ status' = [status EXCEPT ![d] = StatusFor(result)]
                 ELSE UNCHANGED <<extraction, photo, status>>
        /\ Release(w)
        /\ UNCHANGED <<today, createdOn, objects, request, events, deliveries, draft, sweepVars,
                       cleanup, crashes, browser>>

\* A timeout or an error: the transaction rolls back, and nobody retries the event
\* (maximum_retry_attempts = 0).
CrashWorker(w) ==
    /\ step[w] # "idle" /\ crashes < MaxCrashes
    /\ crashes' = crashes + 1
    /\ Release(w)
    /\ UNCHANGED <<today, status, createdOn, extraction, photo, objects, request, events,
                   deliveries, draft, sweepVars, cleanup, browser>>

-----------------------------------------------------------------------------
(* Pass C of the scheduler (cleanup.sweep_abandoned_drafts). *)

\* Variant: only drafts that were extracted are swept.
SweepableIfExtracted(d) == status[d] = "extracted" /\ createdOn[d] + TTL < today
Sweepable(d) == status[d] \in InProgress /\ createdOn[d] + TTL < today

StartSweep ==
    /\ sweep = "idle"
    /\ stale' = {d \in Drafts : Sweepable(d)} /\ stale' # {}
    /\ sweep' = "scanned"
    /\ UNCHANGED <<today, rows, objects, request, workerVars, cleanup, crashes, browser>>

\* Variant: a DELETE by id alone.
SweepDeleteById ==
    /\ sweep = "scanned"
    /\ \A d \in stale : lock[d] = Free
    /\ Remove({d \in stale : Present(d)}, "swept")
    /\ sweep' = "deleted"
    /\ UNCHANGED <<today, objects, request, workerVars, stale, cleanup, crashes, browser>>

\* One DELETE, which waits for locked rows and tests its WHERE again on each.
SweepDelete ==
    /\ sweep = "scanned"
    /\ \A d \in stale : lock[d] = Free
    /\ Remove({d \in stale : Sweepable(d)}, "swept")
    /\ sweep' = "deleted"
    /\ UNCHANGED <<today, objects, request, workerVars, stale, cleanup, crashes, browser>>

\* The receipts of every row of the scan; an error of S3 is logged.
SweepReceipt(d) ==
    /\ sweep = "deleted" /\ d \in stale
    /\ objects' \in {objects, objects \ {d}}
    /\ stale' = stale \ {d}
    /\ sweep' = IF stale' = {} THEN "idle" ELSE sweep
    /\ UNCHANGED <<today, rows, request, workerVars, cleanup, crashes, browser>>

CrashSweep ==
    /\ sweep # "idle" /\ crashes < MaxCrashes
    /\ crashes' = crashes + 1
    /\ sweep' = "idle" /\ stale' = {}
    /\ UNCHANGED <<today, rows, objects, request, workerVars, cleanup, browser>>

-----------------------------------------------------------------------------

Create(q) == CountDrafts(q) \/ AbortCreate(q) \/ \E d \in Drafts : InsertDraft(q, d)

User(d) ==
    \/ Upload(d) \/ LeaveCapture(d)
    \/ PollVisible(d) \/ PollDraft(d) \/ PollExtraction(d) \/ PollTimeout(d)
    \/ SwitchToManual(d) \/ ReloadConfirm(d)
    \/ SubmitConfirm(d) \/ Confirm(d) \/ RefuseConfirm(d)
    \/ ReplacePhoto(d) \/ ConfirmPhotoUpload(d)
    \/ DeleteTransaction(d) \/ DeleteReceipt(d)

Extract(w) ==
    \/ \E d \in Drafts : Receive(w, d)
    \/ LockDraft(w) \/ MissDraft(w) \/ WriteBack(w)

Sweep == StartSweep \/ SweepDelete \/ \E d \in Drafts : SweepReceipt(d)

Next ==
    \/ Tick
    \/ \E q \in Requests : Create(q)
    \/ \E d \in Drafts : User(d) \/ Redeliver(d)
    \/ \E w \in Workers : Extract(w) \/ CrashWorker(w)
    \/ Sweep \/ CrashSweep

Spec == Init /\ [][Next]_vars

-----------------------------------------------------------------------------
(* Safety. *)

\* The status a draft shows and the extraction beside it are committed together,
\* whatever worker dies, is doubled or is late: pending without one, reviewable with
\* the one that says so, and confirmed only ever after one.
StatusMatchesExtraction ==
    \A d \in Drafts :
        /\ status[d] \in Absent \cup {"pending_ocr"} => extraction[d] = "none" /\ ~photo[d]
        /\ status[d] = "extracted" => extraction[d] = "succeeded"
        /\ status[d] = "extraction_failed" => extraction[d] = "failed"
        /\ status[d] = "confirmed" => extraction[d] # "none"

\* The daily limit may be overrun by requests that counted together, and by no more
\* than all of them but one.
OvershootBounded ==
    \A day \in Days :
        Cardinality(CreatedOn(day)) < DailyLimit + Cardinality(Requests)

\* A confirmed transaction belongs to the user: no late or doubled event and no
\* sweep that scanned it as a draft changes or removes it.
ConfirmedIsFinal ==
    [][\A d \in Drafts : status[d] = "confirmed" =>
          \/ status'[d] = "discarded"
          \/ /\ status'[d] = "confirmed"
             /\ extraction'[d] = extraction[d] /\ (photo[d] => photo'[d])]_vars

\* An extraction is never replaced by that of a second event while its row exists.
ExtractionIsFinal ==
    [][\A d \in Drafts : extraction[d] # "none" =>
          extraction'[d] = extraction[d] \/ status'[d] \in Absent]_vars

\* An extraction that succeeded is not offered to the user as an empty form: status and
\* extraction are read in the order the worker makes safe.  The exceptions are a row
\* deleted under the poll, and one confirmed after the poll did not find it among the
\* visible transactions: that one is then not found among the drafts either.
PollShowsExtraction ==
    [][\A d \in Drafts :
          page[d] \in {"polling", "loading"} /\ page'[d] = "manual" =>
              \/ status[d] \in Absent \/ extraction[d] = "failed"
              \/ status[d] = "confirmed" /\ seen[d] = "missed"]_vars

(* What a docstring says and the code does not do. *)

\* ocr/cleanup.py: "A `confirmed` transaction is a real transaction now and is never
\* touched"; deleting its receipt is of "no additional risk".
PhotoIsThere == \A d \in Drafts : Present(d) /\ photo[d] => d \in objects

-----------------------------------------------------------------------------
(***************************************************************************)
(* Liveness.  Fairness is that of the machinery alone: days pass, a        *)
(* request that has begun ends, an invocation of the worker ends or is cut *)
(* off, and the sweep, once due, gets on.  Nothing is asked of users and   *)
(* of open pages: nobody need confirm, poll or delete.  Being due for the  *)
(* sweep only ends with the draft, so that the sweeps of the last day      *)
(* stand for those of all later days.                                      *)
(***************************************************************************)

Finish(q) == AbortCreate(q) \/ \E d \in Drafts : InsertDraft(q, d)

Proceed(w) == LockDraft(w) \/ MissDraft(w) \/ WriteBack(w) \/ CrashWorker(w)

Fairness ==
    /\ WF_vars(Tick) /\ WF_vars(Sweep)
    /\ \A q \in Requests : WF_vars(Finish(q))
    /\ \A w \in Workers : WF_vars(Proceed(w))

FairSpec == Spec /\ Fairness

Ages(d) == status[d] \in InProgress /\ createdOn[d] + TTL < LastDay

\* No draft stays behind, whatever users leave open: what nobody confirms or deletes is
\* swept, also when its worker died and when a sweep did.
DraftsDoNotLinger == \A d \in Drafts : Ages(d) ~> status[d] \notin InProgress
=============================================================================
