--------------------------- MODULE OcrDraftsProofs ---------------------------
(***************************************************************************)
(* Proofs about OcrDrafts.  Type correctness and StatusMatchesExtraction   *)
(* are inductive together; the two action properties follow from them step *)
(* by step.                                                                *)
(***************************************************************************)
EXTENDS OcrDrafts, FiniteSetTheorems, TLAPS

\* What a poll has read of the status is still borne out by the extraction when it
\* reads that, unless the row is gone.
SeenIsBacked ==
    \A d \in Drafts :
        /\ status[d] = "unused" => page[d] = "none" /\ seen[d] = "nothing" /\ sent[d] = "none"
        /\ status[d] \in OcrStatus =>
              /\ seen[d] \in {"extracted", "confirmed"} => extraction[d] # "none"
              /\ seen[d] = "extraction_failed" => extraction[d] = "failed"

\* The inductive invariant; events under way have been sent.
DraftInv ==
    /\ TypeOK
    /\ StatusMatchesExtraction
    /\ SeenIsBacked
    /\ \A d \in Drafts : events[d] <= deliveries[d]

LEMMA DraftInit == Init => DraftInv
<1> SUFFICES ASSUME Init PROVE DraftInv
  OBVIOUS
<1>1. NoDraft \in Drafts
  BY OcrConstants DEF NoDraft
<1>2. TypeOK
  BY <1>1, OcrConstants DEF Init, TypeOK, Days, Idle, Absent, InProgress, OcrStatus
<1>3. StatusMatchesExtraction
  BY DEF Init, StatusMatchesExtraction
<1>4. \A d \in Drafts : events[d] <= deliveries[d]
  BY DEF Init
<1>5. SeenIsBacked
  BY DEF Init, SeenIsBacked
<1> QED
  BY <1>2, <1>3, <1>4, <1>5 DEF DraftInv

LEMMA DraftStep == DraftInv /\ [Next]_vars => DraftInv'
<1> SUFFICES ASSUME DraftInv, [Next]_vars PROVE DraftInv'
  OBVIOUS
<1> USE OcrConstants DEF DraftInv, TypeOK, StatusMatchesExtraction, SeenIsBacked, Days, Idle, Absent,
                         InProgress, OcrStatus, vars, rows, workerVars, sweepVars, browser

<1>1. CASE Tick
  BY <1>1 DEF Tick
<1>2. ASSUME NEW q \in Requests, CountDrafts(q) PROVE DraftInv'
  BY <1>2 DEF CountDrafts
<1>3. ASSUME NEW q \in Requests, NEW d \in Drafts, InsertDraft(q, d) PROVE DraftInv'
  BY <1>3 DEF InsertDraft
<1>4. ASSUME NEW q \in Requests, AbortCreate(q) PROVE DraftInv'
  BY <1>4 DEF AbortCreate
<1>5. ASSUME NEW d \in Drafts, Upload(d) PROVE DraftInv'
  BY <1>5 DEF Upload
<1>6. ASSUME NEW d \in Drafts, LeaveCapture(d) PROVE DraftInv'
  BY <1>6 DEF LeaveCapture
<1>7. ASSUME NEW d \in Drafts, PollVisible(d) \/ PollDraft(d) PROVE DraftInv'
  <2>1. CASE PollVisible(d)
    BY <2>1 DEF PollVisible
  <2>2. CASE PollDraft(d)
    BY <2>2 DEF PollDraft
  <2> QED
    BY <1>7, <2>1, <2>2
<1>8. ASSUME NEW d \in Drafts, PollExtraction(d) PROVE DraftInv'
  BY <1>8 DEF PollExtraction, Shown
<1>9. ASSUME NEW d \in Drafts, PollTimeout(d) PROVE DraftInv'
  BY <1>9 DEF PollTimeout
<1>10. ASSUME NEW d \in Drafts, SwitchToManual(d) PROVE DraftInv'
  BY <1>10 DEF SwitchToManual
<1>11. ASSUME NEW d \in Drafts, ReloadConfirm(d) PROVE DraftInv'
  BY <1>11 DEF ReloadConfirm
<1>12. ASSUME NEW d \in Drafts, SubmitConfirm(d) \/ Confirm(d) \/ RefuseConfirm(d) PROVE DraftInv'
  <2>1. CASE Confirm(d)
    BY <2>1 DEF Confirm
  <2>2. CASE SubmitConfirm(d) \/ RefuseConfirm(d)
    BY <2>2 DEF SubmitConfirm, RefuseConfirm
  <2> QED
    BY <1>12, <2>1, <2>2
<1>13. ASSUME NEW d \in Drafts, ReplacePhoto(d) PROVE DraftInv'
  BY <1>13 DEF ReplacePhoto
<1>14. ASSUME NEW d \in Drafts, ConfirmPhotoUpload(d) PROVE DraftInv'
  BY <1>14 DEF ConfirmPhotoUpload
<1>15. ASSUME NEW d \in Drafts, DeleteTransaction(d) PROVE DraftInv'
  <2>1. TypeOK' /\ \A e \in Drafts : events'[e] <= deliveries'[e]
    BY <1>15 DEF DeleteTransaction, Remove
  <2>2. StatusMatchesExtraction'
    BY <1>15 DEF DeleteTransaction, Remove
  <2>3. SeenIsBacked'
    BY <1>15 DEF DeleteTransaction, Remove
  <2> QED
    BY <2>1, <2>2, <2>3
<1>16. ASSUME NEW d \in Drafts, DeleteReceipt(d) PROVE DraftInv'
  BY <1>16 DEF DeleteReceipt
<1>17. ASSUME NEW d \in Drafts, Redeliver(d) PROVE DraftInv'
  BY <1>17 DEF Redeliver
<1>18. ASSUME NEW w \in Workers, NEW d \in Drafts, Receive(w, d) PROVE DraftInv'
  BY <1>18 DEF Receive
<1>19. ASSUME NEW w \in Workers, LockDraft(w) PROVE DraftInv'
  BY <1>19 DEF LockDraft
<1>20. ASSUME NEW w \in Workers, MissDraft(w) PROVE DraftInv'
  BY <1>20 DEF MissDraft
<1>21. ASSUME NEW w \in Workers, WriteBack(w) PROVE DraftInv'
  <2>1. /\ lock' \in [Drafts -> Workers \cup {Free}]
        /\ step' \in [Workers -> {"idle", "look", "look_again", "extract"}]
    BY <1>21 DEF WriteBack, Release
  <2>2. CASE Pending(draft[w])
    <3> DEFINE d == draft[w]
    <3>1. PICK result \in {"succeeded", "failed"} :
             /\ extraction' = [extraction EXCEPT ![d] = result]
             /\ \E found \in {FALSE, (d \in objects)} :
                   photo' = [photo EXCEPT ![d] = @ \/ found]
             /\ status' = [status EXCEPT ![d] = StatusFor(result)]
      BY <1>21, <2>2 DEF WriteBack
    <3>2. PICK found \in BOOLEAN : photo' = [photo EXCEPT ![d] = @ \/ found]
      BY <3>1
    <3>3. TypeOK'
      BY <1>21, <2>1, <3>1, <3>2 DEF WriteBack, StatusFor
    <3>4. StatusMatchesExtraction' /\ SeenIsBacked'
      BY <1>21, <2>2, <3>1, <3>2 DEF WriteBack, StatusFor, Pending
    <3> QED
      BY <1>21, <3>3, <3>4 DEF WriteBack
  <2>3. CASE ~Pending(draft[w])
    BY <1>21, <2>1, <2>3 DEF WriteBack
  <2> QED
    BY <2>2, <2>3
<1>22. ASSUME NEW w \in Workers, CrashWorker(w) PROVE DraftInv'
  BY <1>22 DEF CrashWorker, Release
<1>23. CASE StartSweep
  BY <1>23 DEF StartSweep
<1>24. CASE SweepDelete
  BY <1>24 DEF SweepDelete, Remove, Sweepable
<1>25. ASSUME NEW d \in Drafts, SweepReceipt(d) PROVE DraftInv'
  BY <1>25 DEF SweepReceipt
<1>26. CASE CrashSweep
  BY <1>26 DEF CrashSweep
<1>27. CASE UNCHANGED vars
  BY <1>27
<1> QED
  BY <1>1, <1>2, <1>3, <1>4, <1>5, <1>6, <1>7, <1>8, <1>9, <1>10, <1>11, <1>12, <1>13, <1>14, <1>15, <1>16, <1>17, <1>18, <1>19, <1>20, <1>21, <1>22, <1>23, <1>24, <1>25, <1>26, <1>27 DEF Next, Create, User, Extract, Sweep


\* Every reachable state is well typed: extraction.py, service.py and cleanup.py leave
\* no status, page or lock outside the modelled ones.
THEOREM DraftInvariant == Spec => []DraftInv
  BY DraftInit, DraftStep, PTL DEF Spec

THEOREM DraftTypeCorrect == Spec => []TypeOK
<1>1. DraftInv => TypeOK
  BY DEF DraftInv
<1> QED
  BY <1>1, DraftInvariant, PTL

\* Status and extraction are committed together: the conditional UPDATE, the upsert
\* and the deletes of extraction.py, service.py and cleanup.py keep them in step,
\* for any number of drafts, workers, events and crashes.
THEOREM StatusAndExtractionAgree == Spec => []StatusMatchesExtraction
<1>1. DraftInv => StatusMatchesExtraction
  BY DEF DraftInv
<1> QED
  BY <1>1, DraftInvariant, PTL

\* A late or doubled event, or a sweep that scanned the row as a draft, never
\* changes a confirmed transaction: Pending guards the worker's UPDATE
\* (extraction.py:172-178), Sweepable is tested again by the DELETE (cleanup.py:109).
THEOREM ConfirmedStays == Spec => ConfirmedIsFinal
<1>1. DraftInv /\ [Next]_vars =>
        [\A d \in Drafts : status[d] = "confirmed" =>
            \/ status'[d] = "discarded"
            \/ /\ status'[d] = "confirmed"
               /\ extraction'[d] = extraction[d] /\ (photo[d] => photo'[d])]_vars
  <2> SUFFICES ASSUME DraftInv, Next, NEW d \in Drafts, status[d] = "confirmed"
               PROVE  \/ status'[d] = "discarded"
                      \/ /\ status'[d] = "confirmed"
                         /\ extraction'[d] = extraction[d] /\ (photo[d] => photo'[d])
    OBVIOUS
  <2> USE DEF DraftInv, TypeOK, rows
  <2>1. CASE Tick
    BY <2>1 DEF Tick
  <2>2. ASSUME NEW q \in Requests, Create(q)
        PROVE  status'[d] = "confirmed" /\ extraction'[d] = extraction[d] /\ photo'[d] = photo[d]
    BY <2>2 DEF Create, CountDrafts, InsertDraft, AbortCreate
  <2>3. ASSUME NEW e \in Drafts, User(e)
        PROVE  \/ status'[d] = "discarded"
               \/ /\ status'[d] = "confirmed"
                  /\ extraction'[d] = extraction[d] /\ (photo[d] => photo'[d])
    <3>1. CASE Confirm(e) \/ ConfirmPhotoUpload(e)
      BY <2>3, <3>1 DEF Confirm, ConfirmPhotoUpload
    <3>2. CASE DeleteTransaction(e)
      BY <3>2 DEF DeleteTransaction, Remove
    <3>3. CASE UNCHANGED rows
      BY <3>3
    <3> QED
      BY <2>3, <3>1, <3>2, <3>3
         DEF User, Upload, LeaveCapture, PollVisible, PollDraft, PollExtraction, PollTimeout,
             SwitchToManual, ReloadConfirm, SubmitConfirm, RefuseConfirm, ReplacePhoto,
             DeleteReceipt
  <2>4. ASSUME NEW w \in Workers, Extract(w) \/ CrashWorker(w)
        PROVE  status'[d] = "confirmed" /\ extraction'[d] = extraction[d] /\ photo'[d] = photo[d]
    <3>1. CASE WriteBack(w)
      BY <3>1 DEF WriteBack, Pending
    <3>2. CASE UNCHANGED <<status, extraction, photo>>
      BY <3>2
    <3> QED
      BY <2>4, <3>1, <3>2 DEF Extract, Receive, LockDraft, MissDraft, CrashWorker
  <2>5. CASE Sweep \/ CrashSweep
    <3>1. CASE SweepDelete
      BY <3>1 DEF SweepDelete, Remove, Sweepable, InProgress
    <3>2. CASE UNCHANGED rows
      BY <3>2
    <3> QED
      BY <2>5, <3>1, <3>2 DEF Sweep, StartSweep, SweepReceipt, CrashSweep
  <2>6. ASSUME NEW e \in Drafts, Redeliver(e) PROVE UNCHANGED rows
    BY <2>6 DEF Redeliver
  <2> QED
    BY <2>1, <2>2, <2>3, <2>4, <2>5, <2>6 DEF Next
<1> QED
  BY <1>1, DraftInvariant, PTL DEF Spec, ConfirmedIsFinal

\* An extraction is written once: a second event finds the row no longer pending
\* (extraction.py:58-76), so what the user was shown is what is stored.
THEOREM ExtractionStays == Spec => ExtractionIsFinal
<1>1. DraftInv /\ [Next]_vars =>
        [\A d \in Drafts : extraction[d] # "none" =>
            extraction'[d] = extraction[d] \/ status'[d] \in Absent]_vars
  <2> SUFFICES ASSUME DraftInv, Next, NEW d \in Drafts, extraction[d] # "none"
               PROVE  extraction'[d] = extraction[d] \/ status'[d] \in Absent
    OBVIOUS
  <2> USE DEF DraftInv, TypeOK, rows
  <2>1. ASSUME NEW e \in Drafts, DeleteTransaction(e)
        PROVE  extraction'[d] = extraction[d] \/ status'[d] \in Absent
    BY <2>1 DEF DeleteTransaction, Remove, Absent
  <2>2. CASE SweepDelete
    BY <2>2 DEF SweepDelete, Remove, Absent
  <2>3. ASSUME NEW w \in Workers, WriteBack(w)
        PROVE  extraction'[d] = extraction[d]
    <3>1. CASE Pending(draft[w])
      <4>1. draft[w] # d
        BY <3>1 DEF Pending, StatusMatchesExtraction
      <4> QED
        BY <2>3, <3>1, <4>1 DEF WriteBack
    <3>2. CASE ~Pending(draft[w])
      BY <2>3, <3>2 DEF WriteBack
    <3> QED
      BY <3>1, <3>2
  <2>4. CASE UNCHANGED extraction
    BY <2>4
  <2> QED
    BY <2>1, <2>2, <2>3, <2>4
       DEF Next, Tick, Create, CountDrafts, InsertDraft, AbortCreate, User, Upload,
           LeaveCapture, PollVisible, PollDraft, PollExtraction, PollTimeout, SwitchToManual,
           ReloadConfirm, SubmitConfirm, Confirm, RefuseConfirm, ReplacePhoto, ConfirmPhotoUpload, DeleteReceipt,
           Redeliver, Extract, Receive, LockDraft, MissDraft, CrashWorker, Sweep,
           StartSweep, SweepReceipt, CrashSweep
<1> QED
  BY <1>1, DraftInvariant, PTL DEF Spec, ExtractionIsFinal

\* The statements of GET .../ocr (service.py:286-293 and 407-411) are read in an order
\* that hides a successful extraction from the page in one case only: the row was among
\* the drafts at the first and among the visible transactions at the second.
THEOREM PollIsFaithful == Spec => PollShowsExtraction
<1>1. DraftInv /\ [Next]_vars =>
        [\A d \in Drafts :
            page[d] \in {"polling", "loading"} /\ page'[d] = "manual" =>
                \/ status[d] \in Absent \/ extraction[d] = "failed"
                \/ status[d] = "confirmed" /\ seen[d] = "missed"]_vars
  <2> SUFFICES ASSUME DraftInv, Next, NEW d \in Drafts,
                      page[d] \in {"polling", "loading"}, page'[d] = "manual"
               PROVE  \/ status[d] \in Absent \/ extraction[d] = "failed"
                      \/ status[d] = "confirmed" /\ seen[d] = "missed"
    OBVIOUS
  <2> USE DEF DraftInv, TypeOK, browser
  <2>1. ASSUME NEW e \in Drafts, PollDraft(e)
        PROVE  status[d] \in Absent \/ (status[d] = "confirmed" /\ seen[d] = "missed")
    BY <2>1 DEF PollDraft, OcrStatus
  <2>2. ASSUME NEW e \in Drafts, PollExtraction(e)
        PROVE  status[d] \in Absent \/ extraction[d] = "failed"
    <3>1. e = d /\ Shown(page[d], seen[d], extraction[d]) = "manual" /\ seen[d] \in OcrStatus
      BY <2>2 DEF PollExtraction
    <3>2. seen[d] # "pending_ocr" /\ (seen[d] = "extraction_failed" \/ extraction[d] = "none")
      BY <3>1 DEF Shown
    <3> QED
      BY <3>1, <3>2 DEF SeenIsBacked, OcrStatus, InProgress
  <2>3. CASE page'[d] = page[d]
    BY <2>3
  <2>4. ASSUME NEW e \in Drafts,
               \/ Upload(e) \/ LeaveCapture(e) \/ PollTimeout(e) \/ SwitchToManual(e)
               \/ ReloadConfirm(e) \/ Confirm(e)
        PROVE  page'[d] # "manual" \/ page'[d] = page[d]
    BY <2>4 DEF Upload, LeaveCapture, PollTimeout, SwitchToManual, ReloadConfirm, Confirm
  <2>5. ASSUME NEW q \in Requests, Create(q)
        PROVE  page'[d] # "manual" \/ page'[d] = page[d]
    BY <2>5 DEF Create, CountDrafts, InsertDraft, AbortCreate
  <2> QED
    BY <2>1, <2>2, <2>3, <2>4, <2>5
       DEF Next, Tick, User, PollVisible, SubmitConfirm, RefuseConfirm, ReplacePhoto,
           ConfirmPhotoUpload, DeleteTransaction, DeleteReceipt, Redeliver, Extract, Receive,
           LockDraft, MissDraft, WriteBack, CrashWorker, Sweep, StartSweep, SweepDelete,
           SweepReceipt, CrashSweep
<1> QED
  BY <1>1, DraftInvariant, PTL DEF Spec, PollShowsExtraction

-----------------------------------------------------------------------------
(***************************************************************************)
(* The daily limit.  A request that passes the count when r rows are there *)
(* finds r below the limit, and at most every request is between its count *)
(* and its insert: rows and such requests together stay below the bound.   *)
(***************************************************************************)

Counted(day) == {q \in Requests : request[q] = day}

Booked(day) == Cardinality(CreatedOn(day)) + Cardinality(Counted(day))

BookingInv ==
    \A day \in Days : Booked(day) < DailyLimit + Cardinality(Requests)

LEMMA BookedSetsAreFinite ==
  ASSUME NEW day
  PROVE  /\ IsFiniteSet(CreatedOn(day)) /\ IsFiniteSet(Counted(day))
         /\ Cardinality(CreatedOn(day)) \in Nat /\ Cardinality(Counted(day)) \in Nat
         /\ Cardinality(Counted(day)) <= Cardinality(Requests)
<1>1. CreatedOn(day) \subseteq Drafts /\ Counted(day) \subseteq Requests
  BY DEF CreatedOn, Counted
<1>2. IsFiniteSet(Drafts) /\ IsFiniteSet(Requests)
  BY OcrConstants
<1> QED
  BY <1>1, <1>2, FS_Subset, FS_CardinalityType

\* A step that neither adds a row of a day nor a request that counted on it.
LEMMA BookedFrame ==
  ASSUME NEW day, CreatedOn(day)' \subseteq CreatedOn(day), Counted(day)' \subseteq Counted(day)
  PROVE  Booked(day)' <= Booked(day) /\ Booked(day) \in Nat /\ Booked(day)' \in Nat
<1>1. IsFiniteSet(CreatedOn(day)) /\ IsFiniteSet(Counted(day))
  BY BookedSetsAreFinite
<1>2. /\ IsFiniteSet(CreatedOn(day)') /\ IsFiniteSet(Counted(day)')
      /\ Cardinality(CreatedOn(day)') <= Cardinality(CreatedOn(day))
      /\ Cardinality(Counted(day)') <= Cardinality(Counted(day))
  BY <1>1, FS_Subset
<1>3. /\ Cardinality(CreatedOn(day)) \in Nat /\ Cardinality(CreatedOn(day)') \in Nat
      /\ Cardinality(Counted(day)) \in Nat /\ Cardinality(Counted(day)') \in Nat
  BY <1>1, <1>2, FS_CardinalityType
<1> QED
  BY <1>2, <1>3 DEF Booked

\* One element more, one element less.
LEMMA OneMore ==
  ASSUME NEW S, IsFiniteSet(S), NEW x, x \notin S
  PROVE  Cardinality(S \cup {x}) = Cardinality(S) + 1
  BY FS_AddElement

LEMMA OneLess ==
  ASSUME NEW S, IsFiniteSet(S), NEW x, x \in S
  PROVE  Cardinality(S \ {x}) = Cardinality(S) - 1
  BY FS_RemoveElement

LEMMA BookingInit == Init => BookingInv
<1> SUFFICES ASSUME Init, NEW day \in Days
             PROVE  Booked(day) < DailyLimit + Cardinality(Requests)
  BY DEF BookingInv
<1>1. CreatedOn(day) = {}
  BY DEF Init, CreatedOn, Present, OcrStatus, InProgress
<1>2. Cardinality(CreatedOn(day)) = 0
  BY <1>1, FS_EmptySet
<1>3. Counted(day) = {}
  BY OcrConstants DEF Init, Counted, Days, Idle
<1>4. Cardinality(Counted(day)) = 0
  BY <1>3, FS_EmptySet
<1>5. Cardinality(Requests) \in Nat
  BY OcrConstants, FS_CardinalityType
<1> QED
  BY <1>2, <1>4, <1>5, OcrConstants DEF Booked

LEMMA BookingStep == DraftInv /\ BookingInv /\ [Next]_vars => BookingInv'
<1> SUFFICES ASSUME DraftInv, BookingInv, [Next]_vars, NEW day \in Days
             PROVE  Booked(day)' < DailyLimit + Cardinality(Requests)
  BY DEF BookingInv
<1> USE DEF DraftInv, TypeOK, rows
<1>1. /\ Cardinality(Requests) \in Nat /\ DailyLimit \in Nat
      /\ Booked(day) < DailyLimit + Cardinality(Requests)
  BY OcrConstants, FS_CardinalityType DEF BookingInv
<1>2. CASE CreatedOn(day)' \subseteq CreatedOn(day) /\ Counted(day)' \subseteq Counted(day)
  BY <1>1, <1>2, BookedFrame
<1>3. ASSUME NEW q \in Requests, CountDrafts(q)
      PROVE  Booked(day)' < DailyLimit + Cardinality(Requests)
  <2>1. CreatedOn(day)' = CreatedOn(day)
    BY <1>3 DEF CountDrafts, CreatedOn, Present
  <2>2. CASE day = today
    <3>1. Cardinality(CreatedOn(day)) < DailyLimit
      BY <1>3, <2>2 DEF CountDrafts, UnderLimit
    <3>2. Counted(day)' \subseteq Requests /\ IsFiniteSet(Requests)
      BY OcrConstants DEF Counted
    <3>3. Cardinality(Counted(day)') <= Cardinality(Requests) /\ Cardinality(Counted(day)') \in Nat
      BY <3>2, FS_Subset, FS_CardinalityType
    <3>4. Cardinality(CreatedOn(day)) \in Nat
      BY BookedSetsAreFinite
    <3> QED
      BY <1>1, <2>1, <3>1, <3>3, <3>4 DEF Booked
  <2>3. CASE day # today
    <3>1. Counted(day)' \subseteq Counted(day)
      BY <1>3, <2>3 DEF CountDrafts, Counted
    <3> QED
      BY <1>2, <2>1, <3>1
  <2> QED
    BY <2>2, <2>3
<1>4. ASSUME NEW q \in Requests, NEW d \in Drafts, InsertDraft(q, d)
      PROVE  Booked(day)' < DailyLimit + Cardinality(Requests)
  <2>1. d \notin CreatedOn(day)
    BY <1>4 DEF InsertDraft, CreatedOn, Present, OcrStatus, InProgress
  <2>2. CASE request[q] = day
    <3>1. CreatedOn(day)' = CreatedOn(day) \cup {d}
      BY <1>4, <2>2 DEF InsertDraft, CreatedOn, Present, OcrStatus, InProgress
    <3>2. Counted(day)' = Counted(day) \ {q} /\ q \in Counted(day)
      BY <1>4, <2>2, OcrConstants DEF InsertDraft, Counted, Days, Idle
    <3>3. IsFiniteSet(CreatedOn(day)) /\ IsFiniteSet(Counted(day))
      BY BookedSetsAreFinite
    <3>4. Cardinality(CreatedOn(day)') = Cardinality(CreatedOn(day)) + 1
      BY <2>1, <3>1, <3>3, OneMore
    <3>5. Cardinality(Counted(day)') = Cardinality(Counted(day)) - 1
      BY <3>2, <3>3, OneLess
    <3>6. Cardinality(CreatedOn(day)) \in Nat /\ Cardinality(Counted(day)) \in Nat
      BY BookedSetsAreFinite
    <3> QED
      BY <1>1, <3>4, <3>5, <3>6 DEF Booked
  <2>3. CASE request[q] # day
    <3>1. CreatedOn(day)' \subseteq CreatedOn(day)
      BY <1>4, <2>3 DEF InsertDraft, CreatedOn, Present
    <3>2. Counted(day)' \subseteq Counted(day)
      BY <1>4, OcrConstants DEF InsertDraft, Counted, Days, Idle
    <3> QED
      BY <1>2, <3>1, <3>2
  <2> QED
    BY <2>2, <2>3
<1>5. ASSUME \A d \in Drafts : status'[d] \in OcrStatus => status[d] \in OcrStatus,
             createdOn' = createdOn, request' = request
      PROVE  Booked(day)' < DailyLimit + Cardinality(Requests)
  <2>1. CreatedOn(day)' \subseteq CreatedOn(day) /\ Counted(day)' = Counted(day)
    BY <1>5 DEF CreatedOn, Counted, Present
  <2> QED
    BY <1>2, <2>1
<1>6. ASSUME NEW q \in Requests, AbortCreate(q)
      PROVE  Booked(day)' < DailyLimit + Cardinality(Requests)
  <2>1. CreatedOn(day)' = CreatedOn(day)
    BY <1>6 DEF AbortCreate, CreatedOn, Present
  <2>2. Counted(day)' \subseteq Counted(day)
    BY <1>6, OcrConstants DEF AbortCreate, Counted, Days, Idle
  <2> QED
    BY <1>2, <2>1, <2>2
<1>7. ASSUME NEW d \in Drafts, User(d) \/ Redeliver(d)
      PROVE  Booked(day)' < DailyLimit + Cardinality(Requests)
  <2>1. CASE DeleteTransaction(d)
    BY <1>5, <2>1 DEF DeleteTransaction, Remove, OcrStatus, InProgress
  <2>2. CASE Confirm(d)
    BY <1>5, <2>2 DEF Confirm, OcrStatus, InProgress
  <2>3. CASE UNCHANGED <<status, createdOn, request>>
    BY <1>5, <2>3
  <2> QED
    BY <1>7, <2>1, <2>2, <2>3
       DEF User, Upload, LeaveCapture, PollVisible, PollDraft, PollExtraction, PollTimeout,
           SwitchToManual, ReloadConfirm, SubmitConfirm, RefuseConfirm, ReplacePhoto, ConfirmPhotoUpload, DeleteReceipt, Redeliver
<1>8. ASSUME NEW w \in Workers, Extract(w) \/ CrashWorker(w)
      PROVE  Booked(day)' < DailyLimit + Cardinality(Requests)
  <2>1. CASE WriteBack(w)
    <3>1. \A d \in Drafts : status'[d] \in OcrStatus => status[d] \in OcrStatus
      BY <2>1 DEF WriteBack, Pending, OcrStatus, InProgress
    <3>2. createdOn' = createdOn /\ request' = request
      BY <2>1 DEF WriteBack
    <3> QED
      BY <1>5, <3>1, <3>2
  <2>2. CASE UNCHANGED <<status, createdOn, request>>
    BY <1>5, <2>2
  <2> QED
    BY <1>8, <2>1, <2>2 DEF Extract, Receive, LockDraft, MissDraft, CrashWorker
<1>9. CASE Sweep \/ CrashSweep
  <2>1. CASE SweepDelete
    BY <1>5, <2>1 DEF SweepDelete, Remove, OcrStatus, InProgress
  <2>2. CASE UNCHANGED <<status, createdOn, request>>
    BY <1>5, <2>2
  <2> QED
    BY <1>9, <2>1, <2>2 DEF Sweep, StartSweep, SweepReceipt, CrashSweep
<1>10. CASE Tick \/ UNCHANGED vars
  BY <1>5, <1>10 DEF Tick, vars
<1> QED
  BY <1>3, <1>4, <1>6, <1>7, <1>8, <1>9, <1>10 DEF Next, Create

\* The count and the insert of create_photo_draft (service.py:355-380) let the daily
\* limit be overrun by fewer rows than there are requests at once.
THEOREM OvershootIsBounded == Spec => []OvershootBounded
<1>1. ASSUME BookingInv PROVE OvershootBounded
  <2> SUFFICES ASSUME NEW day \in Days
               PROVE  Cardinality(CreatedOn(day)) < DailyLimit + Cardinality(Requests)
    BY DEF OvershootBounded
  <2>1. Cardinality(CreatedOn(day)) \in Nat /\ Cardinality(Counted(day)) \in Nat
    BY BookedSetsAreFinite
  <2>2. Cardinality(Requests) \in Nat /\ DailyLimit \in Nat
    BY OcrConstants, FS_CardinalityType
  <2> QED
    BY <1>1, <2>1, <2>2 DEF BookingInv, Booked
<1>2. Spec => []BookingInv
  BY BookingInit, BookingStep, DraftInvariant, PTL DEF Spec
<1> QED
  BY <1>1, <1>2, PTL

=============================================================================
