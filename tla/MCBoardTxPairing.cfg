SPECIFICATION Spec
CONSTANTS
    Actors = {ana, bo}
    Threads = {t1}
    Procs = {p1, p2}
    Backend = "postgres"
    MaxClock = 3
    ExtraLists <- MCExtraLists
    MentionSets <- MCNoMentions
    Ops = {"create", "reply", "watch", "unwatch", "catchup"}
    OneCallPerActor = TRUE
SYMMETRY MCSymmetry
INVARIANTS WatchPairing
