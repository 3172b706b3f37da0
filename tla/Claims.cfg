SPECIFICATION ParkingSpec
CONSTANTS
    Proc = {p1, p2}
    Worktree = {w1, w2}
    Palari = {a1, a2}
    Commit = {c1, c2}
    NoClaim = NoClaim
    NoCommit = NoCommit
    Nowhere = Nowhere
    Nobody = Nobody
    MaxLeases = 2
    MaxWrites = 1
    MaxFaults = 1
SYMMETRY Symmetry
CONSTRAINT OneDisturbance
INVARIANTS ClaimsTypeOK NoLeakedLease OneClaimStart
PROPERTIES EndsOnlyByItsOwner ReleasesWhatItParked ParkedOnce PersistsUnderLease
