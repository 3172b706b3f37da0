SPECIFICATION ParkingSpec
CONSTANTS
    Proc = {p1}
    Worktree = {w1}
    Palari = {a1}
    Commit = {c1}
    NoClaim = NoClaim
    NoCommit = NoCommit
    Nowhere = Nowhere
    Nobody = Nobody
    MaxLeases = 2
    MaxWrites = 1
    MaxFaults = 0
PROPERTIES RestartVerifiesFirst
