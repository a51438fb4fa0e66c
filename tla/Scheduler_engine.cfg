SPECIFICATION FairSpec
CONSTANTS
    t1 = t1
    t2 = t2
    t3 = t3
    Tasks = {t1, t2, t3}
    Interval <- Cadence
    Ceiling <- Longest
    GracePeriod = 1
    Wedges = {t1}
    Crashes = TRUE
    NoTask = NoTask
INVARIANTS
    NoOverlap
    BoundedDelay
PROPERTY FiresAgain
