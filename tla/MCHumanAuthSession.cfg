SPECIFICATION FairSpec
CONSTANTS
    Subjects = {u1}
    Names = {n1}
    NameOf <- MCNameOf
    Sids = {s1}
    Procs = {p1, p2}
    MaxToken = 2
INVARIANTS TypeOK
PROPERTIES OverAdmitsNobodyNew EveryRequestEnds
