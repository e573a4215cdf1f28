SPECIFICATION Spec
CONSTANTS
    Agents = {a1, a2}
    Unknown = {x1}
    Names <- MCNames
    Lower <- MCLower
    Posts = {p1}
    MaxHandles = 3
SYMMETRY MCSymmetry
INVARIANTS TypeOK NotifiedOnce ReportTellsDelivery ResolvesAsDocumented
PROPERTY RefusedOnlyForOrphans
