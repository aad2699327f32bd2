SPECIFICATION Spec
CONSTANTS
    Key = {k1}
    Config = {a, b}
    Request = {q1, q2}
    Expiry = 2
    Latency = 1
    Capacity = 1
SYMMETRY Symmetry
INVARIANTS
    LocalWriteVisible
