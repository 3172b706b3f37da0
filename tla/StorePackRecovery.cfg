SPECIFICATION StoreSpec
CONSTANTS
    Data = {d1, d2, d3}
    Meta = {write, approve, advance}
    Guarded = {approve}
    Advance = {advance}
    Proc = {p1, p2}
    PackRecoverers = {p2}
    NoData = NoData
    NoRecord = NoRecord
    Free = Free
    Stale = Stale
    EditDuringWrite = FALSE
    MaxRecords = 5
    MaxFaults = 0
    MaxEdits = 0
INVARIANT JournalReadsBack
