SPECIFICATION Spec
CONSTANTS
    r1 = r1
    r2 = r2
    ann = ann
    bob = bob
    v1 = v1
    b1 = b1
    b2 = b2
    n1 = n1
    n2 = n2
    n3 = n3
    Request = {r1, r2}
    User = {ann, bob}
    VHost = {v1}
    Backend = {b1, b2}
    Name = {n1, n2, n3}
    Config <- MCConfig
    Input <- MCInput
    None = None
SYMMETRY RequestSymmetry
INVARIANTS
    TypeOK
    RoutedByOneConfig
    SameRequestSameTarget
    ConnectionsSettled
