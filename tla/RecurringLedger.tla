--------------------------- MODULE RecurringLedger ---------------------------
(***************************************************************************)
(* What occurrence generation promises, with no runs, rows or locks: each  *)
(* recurrence has a ledger of the dates posted for it, and each change     *)
(* posts one batch for one recurrence.  A ledger only grows, by at most    *)
(* Cap dates at a time, never holds a date twice and never a date that has *)
(* not come.  (generation.py, docstring: idempotency, catch-up and commit  *)
(* granularity.)                                                           *)
(***************************************************************************)
EXTENDS Naturals, Sequences

CONSTANTS Recs, Days, Cap

VARIABLES clock, posted

Init == clock \in Days /\ posted = [r \in Recs |-> <<>>]

NextDay == \E d \in Days : d > clock /\ clock' = d /\ UNCHANGED posted

Distinct(s) == \A i, j \in DOMAIN s : i # j => s[i] # s[j]

\* The posted s becomes t: one batch of at most Cap new dates, all of them reached.
GrowsTo(s, t) ==
    /\ Len(t) \in (Len(s) + 1)..(Len(s) + Cap)
    /\ \A k \in DOMAIN s : t[k] = s[k]
    /\ Distinct(t)
    /\ \A k \in DOMAIN t : t[k] <= clock

PostBatch(r) ==
    /\ GrowsTo(posted[r], posted'[r])
    /\ posted' = [posted EXCEPT ![r] = posted'[r]]
    /\ UNCHANGED clock

Next == NextDay \/ \E r \in Recs : PostBatch(r)

Spec == Init /\ [][Next]_<<clock, posted>>
=============================================================================
