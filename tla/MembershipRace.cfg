SPECIFICATION Spec
CONSTANTS
    Officer = {w1, w2}
    Inviter = {w1}
    User = {u1, u2}
    Org = {o1}
    Invitation = {i1}
    SeatLimit = 2
    None = None
CHECK_DEADLOCK FALSE
SYMMETRY Symmetry
INVARIANT OwnerRemains
