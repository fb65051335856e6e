\* Two refreshes and a settings write over an account with two gates.
SPECIFICATION Spec
CONSTANTS
    g1 = g1
    g2 = g2
    r1 = r1
    r2 = r2
    Order <- MCTwoGates
    Routed <- MCRouted
    Elsewhere <- MCElsewhere
    Refresh <- MCRefresh
    Answer <- MCAny
    Writing = TRUE
SYMMETRY Interchangeable
INVARIANT TypeOK
INVARIANT CoversShowLatest
PROPERTY DataChangeAnnounced
