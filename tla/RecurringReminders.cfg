SPECIFICATION FairSpec
CONSTANTS
    Recs = {a}
    Runs = {x, y}
    MaxDay = 1
    Horizon = 2
    Days = {0, 1, 2}
    MaxFaults = 1
    Null = Null
INVARIANTS
    TypeOK
    SentOnce
    MarkedWasSent
    PassIsComplete
PROPERTIES
    SentInTime
    RunsEnd
