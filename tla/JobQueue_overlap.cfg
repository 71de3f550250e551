SPECIFICATION Spec
CONSTANTS
    m1 = m1
    m2 = m2
    m3 = m3
    k1 = k1
    k2 = k2
    w1 = w1
    w2 = w2
    NoMessage = NoMessage
    Messages = {m1}
    Keys = {k1}
    KeyOf <- OneMessage
    Unparseable = {}
    Unroutable = {}
    Workers = {w1, w2}
    BatchMax = 1
    MaxReceive = 3
    Faults = {"overlap"}
INVARIANT NoJobLost
