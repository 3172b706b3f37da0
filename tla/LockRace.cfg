SPECIFICATION LockSpec
CONSTANTS
    Proc = {p1, p2}
    NoFile = NoFile
    Dead = Dead
    Nobody = Nobody
    MaxCrashes = 0
CONSTRAINT InTime
INVARIANT OneWriter
