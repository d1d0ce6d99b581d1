CONSTANTS
    Ids = {x}
    Requests = {r1, r2}
    Conds = {c}
    Malformed = Malformed
    MaxCount = 2
    MaxBumps = 2
    None = None
SPECIFICATION Spec
INVARIANTS NoGhostRules CopyFollows StoredCountNotAhead
PROPERTY EditsKeepCounts
SYMMETRY Symmetry
