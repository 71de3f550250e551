SPECIFICATION Spec
CONSTANTS
    m1 = m1
    m2 = m2
    m3 = m3
    k1 = k1
    k2 = k2
    w1 = w1
    w2 = w2
    NoMessage = NoMessage
    Messages = {m1, m2, m3}
    Keys = {k1, k2}
    KeyOf <- SharedKey
    Unparseable = {m3}
    Unroutable = {}
    Workers = {w1, w2}
    BatchMax = 2
    MaxReceive = 2
    Faults = {"restart", "evict", "sqs"}
SYMMETRY Symmetry
INVARIANTS TypeOK NoJobLost PoisonAccounted
PROPERTY LedgerSpec
