SPECIFICATION Spec
CONSTANTS
    Worker = {w1, w2, w3}
    Ticket = {t1, t2}
    Slice = {s1, s2}
    Area = {a1, a2}
    Key = {k1}
    Operation <- PromotionRetries
    None = None
VIEW WithoutLog
SYMMETRY Symmetry
INVARIANTS PromotionNeverClashes OneTicketPerKey
