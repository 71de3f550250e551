SPECIFICATION FairSpec
CONSTANTS
    m1 = m1
    m2 = m2
    m3 = m3
    k1 = k1
    k2 = k2
    w1 = w1
    w2 = w2
    NoMessage = NoMessage
    Messages = {m1, m3}
    Keys = {k1, k2}
    KeyOf <- JobAndOther
    Unparseable = {}
    Unroutable = {m3}
    Workers = {w1}
    BatchMax = 2
    MaxReceive = 3
    Faults = {"kill", "overlap", "redis", "evict", "sqs"}
PROPERTY EventuallySettled
