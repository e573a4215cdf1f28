SPECIFICATION Spec
CONSTANTS
    Subjects = {u1, u2}
    Names = {n1}
    NameOf <- MCNameOf
    Sids = {s1, s2}
    Procs = {p1, p2}
    MaxToken = 1
SYMMETRY MCSymmetry
INVARIANTS OneActorPerSubject IdentityHasActor
