SPECIFICATION InterruptedSpec
CONSTANTS
    alice = alice
    bob = bob
    builder = builder
    risky = risky
    leader = leader
    follower = follower
    light = light
    double = double
    Work = {risky, leader, follower, light, double}
    Human = {alice, bob}
    Palari = {builder}
    Approver = {alice, bob}
    Path <- MCPath
    Byte <- MCByte
    Verdicts = {"accept-ready", "changes-requested"}
    Choices = {"accepted"}
    Drafts <- OnlyRisky
    FirstTree <- MCFirstTree
    MaxCommits = 3
    MaxAttempts <- MCMaxAttempts
    MaxReviews <- MCMaxReviews
    MaxDecisions <- MCMaxDecisions
    MaxEdits <- MCMaxEdits
    EditKinds <- MCEditKinds
    Selections <- MCNoSelections
SYMMETRY People
VIEW PinnedView
CONSTRAINT BehaviourBound
INVARIANT ReadyMeansCompletable
CHECK_DEADLOCK FALSE
