SPECIFICATION StoreSpec
CONSTANTS
    Data = {d1, d2, d3}
    Meta = {write, approve, advance}
    Guarded = {approve}
    Advance = {advance}
    Proc = {p1, p2}
    PackRecoverers = {}
    NoData = NoData
    NoRecord = NoRecord
    Free = Free
    Stale = Stale
    EditDuringWrite = FALSE
    MaxRecords = 5
    MaxFaults = 2
    MaxEdits = 1
SYMMETRY Symmetry
INVARIANTS TypeOK JournalReadsBack Bracketed
PROPERTIES WriteAhead NoLostUpdate ImplementsHistory DivergenceStaysVisible
