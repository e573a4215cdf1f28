SPECIFICATION Spec
CONSTANTS
    Actors = {ana, bo, cy}
    Threads = {t1}
    Procs = {p1, p2}
    Backend = "postgres"
    MaxClock = 3
    ExtraLists <- MCNoExtras
    MentionSets <- MCNoMentions
    Ops = {"create", "reply", "catchup"}
    OneCallPerActor = TRUE
SYMMETRY MCSymmetry
INVARIANT NothingLost
