CONSTANTS
    Sids = {s1, s2}
    Attempts = {l1, l2}
    Logouts = {q1, q2}
    Life = 3
    Limits <- Few
    None = None
SPECIFICATION Spec
INVARIANTS LoggedOutStaysOut FailuresBounded
PROPERTY OthersStaySignedIn
SYMMETRY Symmetry
