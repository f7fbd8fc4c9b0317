CONSTANTS
    Session = {s1}
    Claim = {c1, c2}
    NoSession = NoSession
    StaleAfter <- MCStaleAfter
    MaxTime <- MCMaxTime
    MaxEnds <- MCMaxEnds
SPECIFICATION SessionsSpec
INVARIANTS SessionsTypeOK OneClaimPerEnd PageNotAhead
PROPERTIES KeepsClock
SYMMETRY Symmetry
