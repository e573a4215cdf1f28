SPECIFICATION Spec
CONSTANTS
    Ids <- MCIds
    Instants <- MCInstants
    Contents <- MCContents
    Filters <- MCFilters
    Queries <- MCQueries
    Limits <- MCLimits
    DefaultLimit = 1
    MaxLimit = 2
    MaxShown = 3
    Requests = {r1, r2}
SYMMETRY MCSymmetry
INVARIANTS TypeOK ShownOnce ListMissesNothing ListShowsMatches SearchMissesNothing
