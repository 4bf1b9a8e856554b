CONSTANTS
    g1 = g1
    g2 = g2
    c1 = c1
    Grants = {g1, g2}
    Commands = {c1}
    NoGrant = NoGrant
    NoCommand = NoCommand
    MaxLate = 1
    MaxEvents = 1
SPECIFICATION Spec
SYMMETRY GrantSymmetry
INVARIANTS RevokedNeverAdmitted AcknowledgedMeansAdmitted GatewayInv
PROPERTY ClosedStaysClosed
