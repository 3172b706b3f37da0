SPECIFICATION Spec
CONSTANTS
    dora = dora
    omar = omar
    nina = nina
    Human = {dora, omar, nina}
    Nobody = Nobody
    Admin = {}
    Capability <- MCCapability
    Owner = omar
    Risk = "standard"
    Room <- MCRoom
    Sender = {}
    Reader = {r1}
    Thread = {t1, t2}
    MaxPlans = 0
    MaxIssues = 1
    MaxRevision = 3
    MaxCalls = 0
    MaxWork = 2
PROPERTY DuplicateChangesNothing
CHECK_DEADLOCK FALSE
