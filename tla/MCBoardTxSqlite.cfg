SPECIFICATION Spec
CONSTANTS
    Actors = {ana, bo}
    Threads = {t1}
    Procs = {p1, p2}
    Backend = "sqlite"
    MaxClock = 3
    ExtraLists <- MCExtraLists
    MentionSets <- MCMentions
    Ops = {"create", "reply", "unwatch", "catchup"}
    OneCallPerActor = FALSE
SYMMETRY MCSymmetry
INVARIANTS TypeOK
PROPERTY SerialSpec
