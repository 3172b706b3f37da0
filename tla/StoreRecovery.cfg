SPECIFICATION FairSpec
CONSTANTS
    Data = {d1, d2}
    Meta = {write, approve, advance}
    Guarded = {approve}
    Advance = {advance}
    Proc = {p1}
    PackRecoverers = {p1}
    NoData = NoData
    NoRecord = NoRecord
    Free = Free
    Stale = Stale
    EditDuringWrite = TRUE
    MaxRecords = 4
    MaxFaults = 2
    MaxEdits = 1
INVARIANTS JournalReadsBack
PROPERTIES LockIsReleased PendingCommitIsResolved DivergenceIsResolved
