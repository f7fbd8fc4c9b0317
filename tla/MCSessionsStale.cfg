CONSTANTS
    Session = {s1}
    Claim = {c1, c2}
    NoSession = NoSession
    StaleAfter = 1
    MaxTime = 3
    MaxEnds <- MCMaxEnds
SPECIFICATION SessionsSpec
PROPERTIES StaleMeansInactive
SYMMETRY Symmetry
