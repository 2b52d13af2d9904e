SPECIFICATION Spec
CONSTANTS
    a = a
    b = b
    c = c
    d = d
    k1 = k1
    k2 = k2
    Clients = {a, b, c, d}
    Workers = {w1, w2}
    MaxFds = 4
    Keys = {k1, k2}
    Buffers = {b1, b2, b3}
    Capacity = 1
    Index <- SameIndex
    Script <- Readers
INVARIANT
    GetReturnsKeysValue
CHECK_DEADLOCK FALSE
