SPECIFICATION Spec
CONSTANTS
    dora = dora
    omar = omar
    nina = nina
    Human = {dora, omar, nina}
    Nobody = Nobody
    Admin = {}
    Capability <- MCCapability
    Owner = omar
    Risk = "standard"
    Room <- MCRoom
    Sender = {p1, p2}
    Reader = {r1}
    Thread = {t1}
    MaxPlans = 2
    MaxIssues = 2
    MaxRevision = 2
    MaxCalls = 3
    MaxWork = 2
SYMMETRY Processes
VIEW StaleView
CONSTRAINT DeliveryBound
INVARIANTS
    DeliveryTypeOK
    CallsWereApproved
    OneCallIsRecorded
    LinksAreOwn
PROPERTIES
    ImplementsExternalWrites
CHECK_DEADLOCK FALSE
