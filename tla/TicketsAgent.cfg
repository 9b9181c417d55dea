SPECIFICATION Spec
CONSTANTS
    Worker = {w1}
    Ticket = {t1, t2}
    Slice = {s1, s2, s3}
    Area = {a1, a2}
    Key = {}
    Operation <- AllOperations
    None = None
SYMMETRY Symmetry
INVARIANT InboxIsPromotable
