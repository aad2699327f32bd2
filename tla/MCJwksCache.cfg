SPECIFICATION Spec
CONSTANTS
    old = old
    new = new
    next = next
    odd = odd
    bad = bad
    Jwk <- MCJwk
    Kind <- MCKind
    Kid <- MCKid
    KeyId <- MCKeyId
    Document <- MCDocument
    Token <- MCToken
    Request = {q1, q2}
    TTL = 2
    Latency = 1
SYMMETRY Symmetry
INVARIANTS
    TypeOK
    RemovedKeyExpires
    CacheSettles
    NewKeyAccepted
