SPECIFICATION FairLockSpec
CONSTANTS
    Proc = {p1, p2, p3}
    NoFile = NoFile
    Dead = Dead
    Nobody = Nobody
    MaxCrashes = 2
INVARIANTS LockTypeOK OneWriterUntilBroken OwnsFileUntilBroken OnlyLateOwnersAreJudged
PROPERTIES ImplementsMutex OrphanIsReclaimed
