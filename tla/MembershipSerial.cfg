SPECIFICATION Spec
CONSTANTS
    Officer = {w1}
    Inviter = {w2}
    User = {u1, u2}
    Org = {o1, o2}
    Invitation = {i1, i2}
    SeatLimit = 2
    None = None
CHECK_DEADLOCK FALSE
SYMMETRY Symmetry
INVARIANTS TypeOK OwnerRemains SeatsWithinLimit InvitationSpent
PROPERTY LeavingKeepsAnOrg
