SPECIFICATION FairSpec
CONSTANTS
    Recs = {r1}
    Runs = {p1, p2}
    Users = {u1}
    Creator <- MCCreator
    Days <- MCDays
    Anchors <- MCAnchors
    Cadences <- MCCadences
    EndDates <- MCEndDates
    MaxIndex = 3
    Cap = 2
    MaxCrashes = 1
    Shift <- MCShift
    NoEnd = NoEnd
    Free = Free
    Http = Http
INVARIANTS
    TypeOK
    NoDuplicatePosting
    LedgerFollowsSchedule
    OccurrenceRowsMatchLedger
    GenerationInv
PROPERTIES
    CursorNeverMovesBack
    EndDateRespected
    LedgerPromise
    CatchesUp
    RunsTerminate
