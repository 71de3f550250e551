SPECIFICATION Spec
CONSTANTS
    m1 = m1
    m2 = m2
    m3 = m3
    k1 = k1
    k2 = k2
    w1 = w1
    w2 = w2
    NoMessage = NoMessage
    Messages = {m1, m2}
    Keys = {k1}
    KeyOf <- SharedKey2
    Unparseable = {}
    Unroutable = {}
    Workers = {w1, w2}
    BatchMax = 2
    MaxReceive = 2
    Faults = {"kill", "overlap", "sqs"}
SYMMETRY Symmetry
INVARIANTS AtMostOneRun OneHandlerPerKey
