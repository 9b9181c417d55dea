SPECIFICATION Spec
CONSTANTS
    Worker = {w1, w2}
    Ticket = {t1, t2}
    Slice = {s1, s2}
    Area = {a1}
    Key = {}
    Operation <- AllOperations
    None = None
VIEW WithoutLog
SYMMETRY Symmetry
INVARIANTS NoDanglingReference RefNamesOneWork ResolvedAgrees
