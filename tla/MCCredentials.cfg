SPECIFICATION Spec
CONSTANTS
    Ids = {ana, bo}
    Tokens = {k1, k2, k3}
    Procs = {p, q}
SYMMETRY MCSymmetry
INVARIANTS TypeOK LateCallsRefused ListTellsWhoMayCall
