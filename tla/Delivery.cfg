CONSTANTS
    w1 = w1  w2 = w2  a1 = a1  a2 = a2  s1 = s1  s2 = s2
    p1 = p1  p2 = p2  b1 = b1  b2 = b2  k1 = k1  None = None
    Worker = {w1, w2}  Area = {a1, a2}  Slice = {s1, s2}
    Plan = {p1, p2}  Bite = {b1, b2}  Key = {k1}
    Seeds <- MCSeeds  MaxRequests = 3  ShippedLimit = 1
    ListLimit = 1  InboxSizes = {0, 2}
SYMMETRY MCWorkers
SPECIFICATION Spec
INVARIANTS
    TypeOK CompletedAgrees NoOrphans LogTellsWhatHappened OneSlicePerKey
    ChecklistNeverReturns ReadyToShipIsFinished BoardIsComplete CountsAgree HomeAgrees
PROPERTIES OnlyStaleSavesHarm StatusSaveKeepsTheRest
