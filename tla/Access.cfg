CONSTANTS
    w1 = w1  w2 = w2  e1 = e1  e2 = e2  i1 = i1  i2 = i2  c1 = c1  c2 = c2
    o1 = o1  o2 = o2  g1 = g1  g2 = g2  t1 = t1  t2 = t2  t3 = t3  t4 = t4  k1 = k1  None = None
    Worker = {w1, w2}  Email = {e1, e2}  Identity = {i1, i2}  Client = {c1, c2}
    Org = {o1, o2}  Code = {g1, g2}  Token = {t1, t2, t3, t4}  Key = {k1}
    RegistrationOpen = TRUE  Seeds <- MCSeeds  MaxRequests = 4
SYMMETRY MCWorkers
SPECIFICATION Spec
INVARIANTS TypeOK OnePairPerGrant SignUpIsWhole DisconnectedStaysOut
PROPERTIES ImplementsConnection
